---- MODULE Spec2Model ----
(***************************************************************************)
(* A model of the paijorot tree-walking interpreter (src/src/interpreter.rs *)
(* and src/src/environment.rs).                                             *)
(*                                                                          *)
(* Numbers are f64 in the source.  The model keeps a Number as an integer   *)
(* count of halves (field q, value q/2), so that whole numbers and one      *)
(* fractional digit are exact.  Expressions are evaluated by the recursive  *)
(* operator evaluate, statements by one action per step of execute.         *)
(***************************************************************************)
EXTENDS Integers, Sequences, FiniteSets, TLC

VARIABLES
    statements,    \* the Vec<Stmt> handed to Interpreter::interpret
    stack,         \* activations of interpret / execute(If) / execute(Loop)
    environment,   \* Interpreter.environment: the HashMap's entries
    in_loop,       \* Interpreter.in_loop
    should_break,  \* Interpreter.should_break
    output,        \* lines written by println!, the first MaxOut of them
    stdin,         \* lines not yet read from standard input
    status,        \* "idle", "running", "ok" or "err": the state of interpret
    error,         \* the Err message interpret returned, "" when none
    trace,         \* what the last evaluated statement's expressions did
    lastCall       \* the last Environment method called directly (EnvSpec)

vars == <<statements, stack, environment, in_loop, should_break, output,
          stdin, status, error, trace, lastCall>>

(***************************************************************************)
(* Bounds of the model.                                                     *)
(***************************************************************************)
MaxOut == 8
MaxCallDepth == 3

(***************************************************************************)
(* Option<T>                                                                *)
(***************************************************************************)
None == [some |-> FALSE]
Some(x) == [some |-> TRUE, val |-> x]

(***************************************************************************)
(* token::Literal and environment::Value                                    *)
(***************************************************************************)
Number(q) == [kind |-> "Number", q |-> q]
Whole(n) == Number(2 * n)
String(s) == [kind |-> "String", s |-> s]
Boolean(b) == [kind |-> "Boolean", b |-> b]
Nil == [kind |-> "Nil"]
FunctionValue(name, params, body) ==
    [kind |-> "Function", name |-> name, params |-> params, body |-> body]
ArrayValue(elems) == [kind |-> "Array", elems |-> elems]

Abs(n) == IF n < 0 THEN -n ELSE n

\* f64's Display: a whole number prints without a fraction
number_to_string(q) ==
    IF q % 2 = 0
    THEN ToString(q \div 2)
    ELSE (IF q < 0 THEN "-" ELSE "") \o ToString(Abs(q) \div 2) \o ".5"

RECURSIVE to_string(_)
RECURSIVE join(_, _)
join(strs, sep) ==
    IF Len(strs) = 0 THEN ""
    ELSE IF Len(strs) = 1 THEN strs[1]
    ELSE strs[1] \o sep \o join(Tail(strs), sep)

to_string(value) ==
    CASE value.kind = "String" -> value.s
      [] value.kind = "Number" -> number_to_string(value.q)
      [] value.kind = "Boolean" -> IF value.b THEN "true" ELSE "false"
      [] value.kind = "Nil" -> "nil"
      [] value.kind = "Function" -> "<function " \o value.name \o ">"
      [] value.kind = "Array" ->
            "[" \o join([i \in 1..Len(value.elems) |-> to_string(value.elems[i])], ", ") \o "]"

\* a conversion that rounds to the nearest integer
as_i64_rounded(q) == (q + 1) \div 2

\* `n as i64`: the fraction is dropped, toward zero
as_i64(q) == IF q < 0 THEN -(Abs(q) \div 2) ELSE q \div 2

(***************************************************************************)
(* environment::Environment: the entries of the HashMap<String, Value>      *)
(***************************************************************************)
Environment_new == {}

Entry(name, value) == [name |-> name, value |-> value]

contains_key(values, name) == \E b \in values : b.name = name

insert(values, name, value) ==
    {b \in values : b.name # name} \cup {Entry(name, value)}

\* a define that keeps the binding a name already has
define_if_absent(values, name, value) ==
    IF contains_key(values, name) THEN values ELSE insert(values, name, value)

define(values, name, value) == insert(values, name, value)

get(values, name) ==
    IF contains_key(values, name)
    THEN Some((CHOOSE b \in values : b.name = name).value)
    ELSE None

\* an assign that reports success and keeps the old value
assign_keeps_old(values, name, value) ==
    IF contains_key(values, name)
    THEN [ok |-> TRUE, values |-> values, err |-> ""]
    ELSE [ok |-> FALSE, values |-> values,
          err |-> "Undefined variable '" \o name \o "'."]

\* an assign that declares the name when it is not bound
assign_or_define(values, name, value) ==
    [ok |-> TRUE, values |-> insert(values, name, value), err |-> ""]

\* Result<(), String> together with the map after the call
assign(values, name, value) ==
    IF contains_key(values, name)
    THEN [ok |-> TRUE, values |-> insert(values, name, value), err |-> ""]
    ELSE [ok |-> FALSE, values |-> values,
          err |-> "Undefined variable '" \o name \o "'."]

Names(values) == {b.name : b \in values}

(***************************************************************************)
(* parser::Expr and parser::Stmt.  A Token held by a node is kept as what   *)
(* the interpreter reads of it: the token_type of Binary's operator, the    *)
(* lexeme of a name; the paren of Call is dropped.                          *)
(***************************************************************************)
Literal(lit) == [e |-> "Literal", lit |-> lit]
Grouping(inner) == [e |-> "Grouping", inner |-> inner]
Variable(name) == [e |-> "Variable", name |-> name]
Binary(left, operator, right) ==
    [e |-> "Binary", left |-> left, operator |-> operator, right |-> right]
Array(name, elements) == [e |-> "Array", name |-> name, elements |-> elements]
Call(callee, arguments) ==
    [e |-> "Call", callee |-> callee, arguments |-> arguments]
\* Parser::primary, TokenType::Yeet: the marker literal of the input expression
Yeet == Literal(String("__YEET__"))

ExpressionStmt(expr) == [s |-> "Expression", expr |-> expr]
PrintStmt(expr) == [s |-> "Print", expr |-> expr]
VarStmt(name, initializer) ==
    [s |-> "Var", name |-> name, initializer |-> initializer]
IfStmt(condition, then_branch, else_branch) ==
    [s |-> "If", condition |-> condition, then_branch |-> then_branch,
     else_branch |-> else_branch]
LoopStmt(condition, body) == [s |-> "Loop", condition |-> condition, body |-> body]
BreakStmt == [s |-> "Break"]
FunctionStmt(name, params, body) ==
    [s |-> "Function", name |-> name, params |-> params, body |-> body]

(***************************************************************************)
(* Result<Value, String> of the operator helpers                            *)
(***************************************************************************)
OkVal(v) == [ok |-> TRUE, val |-> v, err |-> ""]
ErrVal(msg) == [ok |-> FALSE, val |-> Nil, err |-> msg]

IsNumber(v) == v.kind = "Number"
IsString(v) == v.kind = "String"

\* a truthiness under which zero and the empty string are false too
is_truthy_zero_false(value) ==
    CASE value.kind = "Nil" -> FALSE
      [] value.kind = "Boolean" -> value.b
      [] value.kind = "Number" -> value.q # 0
      [] value.kind = "String" -> value.s # ""
      [] OTHER -> TRUE

is_truthy(value) ==
    CASE value.kind = "Nil" -> FALSE
      [] value.kind = "Boolean" -> value.b
      [] OTHER -> TRUE

\* an add that puts the String operand first whichever side it is on
add_string_first(left, right) ==
    IF IsNumber(left) /\ IsNumber(right) THEN OkVal(Number(left.q + right.q))
    ELSE IF IsString(left) /\ IsString(right) THEN OkVal(String(left.s \o right.s))
    ELSE IF IsString(left) THEN OkVal(String(left.s \o to_string(right)))
    ELSE IF IsString(right) THEN OkVal(String(right.s \o to_string(left)))
    ELSE ErrVal("Operands must be numbers or strings.")

add(left, right) ==
    IF IsNumber(left) /\ IsNumber(right) THEN OkVal(Number(left.q + right.q))
    ELSE IF IsString(left) /\ IsString(right) THEN OkVal(String(left.s \o right.s))
    ELSE IF IsString(left) THEN OkVal(String(left.s \o to_string(right)))
    ELSE IF IsString(right) THEN OkVal(String(to_string(left) \o right.s))
    ELSE ErrVal("Operands must be numbers or strings.")

subtract(left, right) ==
    IF IsNumber(left) /\ IsNumber(right) THEN OkVal(Number(left.q - right.q))
    ELSE ErrVal("Operands must be numbers.")

\* the product and the quotient are kept to the model's half-unit resolution
multiply(left, right) ==
    IF IsNumber(left) /\ IsNumber(right)
    THEN OkVal(Number(IF left.q * right.q < 0
                      THEN -(Abs(left.q * right.q) \div 2)
                      ELSE (left.q * right.q) \div 2))
    ELSE ErrVal("Operands must be numbers.")

\* a divide without the test for a zero divisor
divide_no_zero_check(left, right) ==
    IF IsNumber(left) /\ IsNumber(right)
    THEN OkVal(Number(IF right.q = 0 THEN 0
                      ELSE IF (left.q < 0) # (right.q < 0)
                      THEN -((2 * Abs(left.q)) \div Abs(right.q))
                      ELSE (2 * Abs(left.q)) \div Abs(right.q)))
    ELSE ErrVal("Operands must be numbers.")

divide(left, right) ==
    IF IsNumber(left) /\ IsNumber(right)
    THEN IF right.q = 0
         THEN ErrVal("Division by zero.")
         ELSE OkVal(Number(IF (left.q < 0) # (right.q < 0)
                           THEN -((2 * Abs(left.q)) \div Abs(right.q))
                           ELSE (2 * Abs(left.q)) \div Abs(right.q)))
    ELSE ErrVal("Operands must be numbers.")

\* f64 %: the remainder has the sign of the dividend
modulo(left, right) ==
    IF IsNumber(left) /\ IsNumber(right)
    THEN IF right.q = 0
         THEN ErrVal("Modulo by zero.")
         ELSE OkVal(Number(IF left.q < 0
                           THEN -(Abs(left.q) % Abs(right.q))
                           ELSE left.q % Abs(right.q)))
    ELSE ErrVal("Operands must be numbers.")

greater(left, right) ==
    IF IsNumber(left) /\ IsNumber(right) THEN OkVal(Boolean(left.q > right.q))
    ELSE ErrVal("Operands must be numbers.")

greater_equal(left, right) ==
    IF IsNumber(left) /\ IsNumber(right) THEN OkVal(Boolean(left.q >= right.q))
    ELSE ErrVal("Operands must be numbers.")

less(left, right) ==
    IF IsNumber(left) /\ IsNumber(right) THEN OkVal(Boolean(left.q < right.q))
    ELSE ErrVal("Operands must be numbers.")

less_equal(left, right) ==
    IF IsNumber(left) /\ IsNumber(right) THEN OkVal(Boolean(left.q <= right.q))
    ELSE ErrVal("Operands must be numbers.")

\* an equal that compares the display forms of operands of different kinds
equal_display_forms(left, right) ==
    IF left.kind \in {"Array", "Function"} \/ right.kind \in {"Array", "Function"}
    THEN OkVal(Boolean(FALSE))
    ELSE OkVal(Boolean(to_string(left) = to_string(right)))

equal(left, right) ==
    IF IsNumber(left) /\ IsNumber(right) THEN OkVal(Boolean(left.q = right.q))
    ELSE IF IsString(left) /\ IsString(right) THEN OkVal(Boolean(left.s = right.s))
    ELSE IF left.kind = "Boolean" /\ right.kind = "Boolean"
         THEN OkVal(Boolean(left.b = right.b))
    ELSE IF left.kind = "Nil" /\ right.kind = "Nil" THEN OkVal(Boolean(TRUE))
    ELSE OkVal(Boolean(FALSE))

not_equal(left, right) == OkVal(Boolean(~equal(left, right).val.b))

\* the match on operator.token_type in evaluate, Pmo apart
binary_operation(operator, left, right) ==
    CASE operator = "Plus" -> add(left, right)
      [] operator = "Minus" -> subtract(left, right)
      [] operator = "Star" -> multiply(left, right)
      [] operator = "Slash" -> divide(left, right)
      [] operator = "Modulo" -> modulo(left, right)
      [] operator = "Greater" -> greater(left, right)
      [] operator = "GreaterEqual" -> greater_equal(left, right)
      [] operator = "Less" -> less(left, right)
      [] operator = "LessEqual" -> less_equal(left, right)
      [] operator = "Equal" -> equal(left, right)
      [] operator = "NotEqual" -> not_equal(left, right)
      [] OTHER -> ErrVal("Unsupported binary operation: " \o operator)

(***************************************************************************)
(* Interpreter::evaluate.  The state an evaluation threads is               *)
(*   env    the Environment of the Interpreter that evaluates               *)
(*   stdin  the lines not yet read                                          *)
(*   calls  the number of function bodies entered so far                    *)
(*   trace  the events of the evaluation, in order                          *)
(* and its context is the function activation it runs in: depth 0 and       *)
(* activation 0 for the program's own Interpreter.                          *)
(***************************************************************************)
EvalState(env, in, calls, tr) ==
    [env |-> env, stdin |-> in, calls |-> calls, trace |-> tr]
TopContext == [depth |-> 0, act |-> 0, params |-> <<>>]

Ok(v, st) == [ok |-> TRUE, val |-> v, err |-> "", st |-> st]
Err(msg, st) == [ok |-> FALSE, val |-> Nil, err |-> msg, st |-> st]

Log(st, event) == [st EXCEPT !.trace = Append(@, event)]

\* str::parse::<f64> on the trimmed line, for the lines the model feeds
parse_f64(text) ==
    CASE text = "7" -> Some(14)
      [] text = "2.5" -> Some(5)
      [] OTHER -> None

\* read_line at end of input returns Ok(0) and leaves the buffer empty
handle_input(st) ==
    LET line == IF Len(st.stdin) = 0 THEN "" ELSE Head(st.stdin)
        rest == IF Len(st.stdin) = 0 THEN st.stdin ELSE Tail(st.stdin)
        parsed == parse_f64(line)
        st1 == Log([st EXCEPT !.stdin = rest], [ev |-> "handle_input", line |-> line])
    IN  IF parsed.some THEN Ok(Number(parsed.val), st1) ELSE Ok(String(line), st1)

Min(a, b) == IF a < b THEN a ELSE b

\* the zip of the parameters with the arguments, given in reverse order
bind_arguments_reversed(params, arguments) ==
    LET n == Min(Len(params), Len(arguments))
        bind[i \in 0..n] ==
            IF i = 0 THEN Environment_new
            ELSE define(bind[i - 1], params[i], arguments[n + 1 - i])
    IN  bind[n]

\* call_function: temp_env after `for (param, arg) in params.iter().zip(arguments)`
bind_arguments(params, arguments) ==
    LET n == Min(Len(params), Len(arguments))
        bind[i \in 0..n] ==
            IF i = 0 THEN Environment_new
            ELSE define(bind[i - 1], params[i], arguments[i])
    IN  bind[n]

\* an argument-count check that only rejects too few arguments
arity_mismatch_too_few(function, arguments) ==
    Len(function.params) > Len(arguments)

arity_mismatch(function, arguments) ==
    Len(function.params) # Len(arguments)

RECURSIVE evaluate(_, _, _)
RECURSIVE evaluate_all(_, _, _)
RECURSIVE call_function(_, _, _, _)
RECURSIVE call_function_shared_env(_, _, _, _)

\* `for x in exprs { values.push(self.evaluate(x)?) }`
evaluate_all(exprs, st, ctx) ==
    IF Len(exprs) = 0
    THEN [ok |-> TRUE, vals |-> <<>>, err |-> "", st |-> st]
    ELSE LET first == evaluate(Head(exprs), st, ctx)
         IN  IF ~first.ok
             THEN [ok |-> FALSE, vals |-> <<>>, err |-> first.err, st |-> first.st]
             ELSE LET rest == evaluate_all(Tail(exprs), first.st, ctx)
                  IN  [rest EXCEPT !.vals = <<first.val>> \o @]

\* call_function with the body evaluated by the calling Interpreter itself,
\* the parameters defined in its Environment
call_function_shared_env(callee, arguments, st, ctx) ==
    IF callee.kind # "Function"
    THEN Err("Can only call functions.", st)
    ELSE
    LET st0 == Log(st, [ev |-> "call_function", name |-> callee.name,
                        params |-> callee.params, arguments |-> arguments,
                        act |-> ctx.act])
    IN
    IF arity_mismatch(callee, arguments)
    THEN Err("Expected " \o ToString(Len(callee.params)) \o " arguments but got "
             \o ToString(Len(arguments)) \o ".", st0)
    ELSE IF ctx.depth >= MaxCallDepth
    THEN Err("<stack overflow>", st0)
    ELSE
    LET n == Len(callee.params)
        bound[i \in 0..n] ==
            IF i = 0 THEN st.env
            ELSE define(bound[i - 1], callee.params[i], arguments[i])
        act == st0.calls + 1
        binds == [i \in 1..n |->
                    [ev |-> "bind", param |-> callee.params[i],
                     arg |-> arguments[i], act |-> act]]
        inner == [env |-> bound[n], stdin |-> st0.stdin, calls |-> act,
                  trace |-> (st0.trace \o binds) \o
                            <<[ev |-> "body", name |-> callee.name,
                               params |-> callee.params, arguments |-> arguments,
                               act |-> act, env |-> bound[n], caller |-> st.env]>>]
        result == evaluate(callee.body, inner,
                           [depth |-> ctx.depth + 1, act |-> act,
                            params |-> callee.params])
        back == [env |-> result.st.env, stdin |-> result.st.stdin,
                 calls |-> result.st.calls,
                 trace |-> Append(result.st.trace,
                                  [ev |-> "return", act |-> act, ok |-> result.ok,
                                   val |-> result.val, caller |-> result.st.env])]
    IN  IF result.ok THEN Ok(result.val, back) ELSE Err(result.err, back)

call_function(callee, arguments, st, ctx) ==
    IF callee.kind # "Function"
    THEN Err("Can only call functions.", st)
    ELSE
    LET st0 == Log(st, [ev |-> "call_function", name |-> callee.name,
                        params |-> callee.params, arguments |-> arguments,
                        act |-> ctx.act])
    IN
    IF arity_mismatch(callee, arguments)
    THEN Err("Expected " \o ToString(Len(callee.params)) \o " arguments but got "
             \o ToString(Len(arguments)) \o ".", st0)
    ELSE IF ctx.depth >= MaxCallDepth
    THEN Err("<stack overflow>", st0)
    ELSE
    LET n == Min(Len(callee.params), Len(arguments))
        temp_env == bind_arguments(callee.params, arguments)
        act == st0.calls + 1
        binds == [i \in 1..n |->
                    [ev |-> "bind", param |-> callee.params[i],
                     arg |-> arguments[i], act |-> act]]
        \* the new Interpreter { environment: &mut temp_env, .. }
        inner == [env |-> temp_env, stdin |-> st0.stdin, calls |-> act,
                  trace |-> (st0.trace \o binds) \o
                            <<[ev |-> "body", name |-> callee.name,
                               params |-> callee.params, arguments |-> arguments,
                               act |-> act, env |-> temp_env, caller |-> st.env]>>]
        result == evaluate(callee.body, inner,
                           [depth |-> ctx.depth + 1, act |-> act,
                            params |-> callee.params])
        \* temp_env is dropped; self.environment is what it was
        back == [env |-> st.env, stdin |-> result.st.stdin,
                 calls |-> result.st.calls,
                 trace |-> Append(result.st.trace,
                                  [ev |-> "return", act |-> act, ok |-> result.ok,
                                   val |-> result.val, caller |-> st.env])]
    IN  IF result.ok THEN Ok(result.val, back) ELSE Err(result.err, back)

RECURSIVE evaluate_binary(_, _, _)
RECURSIVE evaluate_array(_, _, _)
RECURSIVE evaluate_call(_, _, _)

\* evaluate, Expr::Binary, with the right operand evaluated first
evaluate_binary_right_first(expr, st, ctx) ==
    LET right_val == evaluate(expr.right, st, ctx)
    IN  IF ~right_val.ok THEN right_val
        ELSE
        LET left_val == evaluate(expr.left, right_val.st, ctx)
        IN  IF ~left_val.ok THEN left_val
            ELSE IF expr.operator = "Pmo"
            THEN IF expr.left.e = "Variable"
                 THEN LET a == assign(left_val.st.env, expr.left.name, right_val.val)
                      IN  IF a.ok
                          THEN Ok(right_val.val,
                                  Log([left_val.st EXCEPT !.env = a.values],
                                      [ev |-> "pmo", name |-> expr.left.name,
                                       val |-> right_val.val, before |-> st.env,
                                       mid |-> left_val.st.env,
                                       after |-> a.values, act |-> ctx.act]))
                          ELSE Err(a.err, left_val.st)
                 ELSE Err("Invalid assignment target.", left_val.st)
            ELSE LET r == binary_operation(expr.operator, left_val.val,
                                           right_val.val)
                 IN  IF r.ok
                     THEN Ok(r.val, Log(left_val.st,
                                        [ev |-> "apply", operator |-> expr.operator,
                                         left |-> left_val.val,
                                         right |-> right_val.val, act |-> ctx.act]))
                     ELSE Err(r.err, left_val.st)

\* evaluate, Expr::Binary (lines 160-187)
evaluate_binary(expr, st, ctx) ==
    LET left_val == evaluate(expr.left, st, ctx)
    IN  IF ~left_val.ok THEN left_val
        ELSE
        LET right_val == evaluate(expr.right, left_val.st, ctx)
        IN  IF ~right_val.ok THEN right_val
            ELSE IF expr.operator = "Pmo"
            THEN IF expr.left.e = "Variable"
                 THEN LET a == assign(right_val.st.env, expr.left.name, right_val.val)
                      IN  IF a.ok
                          THEN Ok(right_val.val,
                                  Log([right_val.st EXCEPT !.env = a.values],
                                      [ev |-> "pmo", name |-> expr.left.name,
                                       val |-> right_val.val, before |-> st.env,
                                       mid |-> right_val.st.env,
                                       after |-> a.values, act |-> ctx.act]))
                          ELSE Err(a.err, right_val.st)
                 ELSE Err("Invalid assignment target.", right_val.st)
            ELSE LET r == binary_operation(expr.operator, left_val.val,
                                           right_val.val)
                 IN  IF r.ok
                     THEN Ok(r.val, Log(right_val.st,
                                        [ev |-> "apply", operator |-> expr.operator,
                                         left |-> left_val.val,
                                         right |-> right_val.val, act |-> ctx.act]))
                     ELSE Err(r.err, right_val.st)

\* evaluate, Expr::Array, with the name defined before the elements are evaluated
evaluate_array_define_first(expr, st, ctx) ==
    LET st0 == [st EXCEPT !.env = define(@, expr.name, ArrayValue(<<>>))]
        array_values == evaluate_all(expr.elements, st0, ctx)
    IN  IF ~array_values.ok
        THEN Err(array_values.err, array_values.st)
        ELSE LET array_value == ArrayValue(array_values.vals)
                 after == define(array_values.st.env, expr.name, array_value)
             IN  Ok(array_value,
                    Log([array_values.st EXCEPT !.env = after],
                        [ev |-> "array", name |-> expr.name, act |-> ctx.act,
                         val |-> array_value, before |-> st.env,
                         mid |-> array_values.st.env, after |-> after]))

\* evaluate, Expr::Array (lines 188-199)
evaluate_array(expr, st, ctx) ==
    LET array_values == evaluate_all(expr.elements, st, ctx)
    IN  IF ~array_values.ok
        THEN Err(array_values.err, array_values.st)
        ELSE LET array_value == ArrayValue(array_values.vals)
                 after == define(array_values.st.env, expr.name, array_value)
             IN  Ok(array_value,
                    Log([array_values.st EXCEPT !.env = after],
                        [ev |-> "array", name |-> expr.name, act |-> ctx.act,
                         val |-> array_value, before |-> st.env,
                         mid |-> array_values.st.env, after |-> after]))

\* evaluate, Expr::Call (lines 200-209)
evaluate_call(expr, st, ctx) ==
    LET callee_val == evaluate(expr.callee, st, ctx)
    IN  IF ~callee_val.ok THEN callee_val
        ELSE
        LET arg_values == evaluate_all(expr.arguments, callee_val.st, ctx)
        IN  IF ~arg_values.ok
            THEN Err(arg_values.err, arg_values.st)
            ELSE call_function(callee_val.val, arg_values.vals,
                               arg_values.st, ctx)

evaluate(expr, st, ctx) ==
    CASE expr.e = "Literal" ->
            IF expr.lit.kind = "String" /\ expr.lit.s = "__YEET__"
            THEN handle_input(st)
            ELSE Ok(expr.lit, st)
      [] expr.e = "Grouping" -> evaluate(expr.inner, st, ctx)
      [] expr.e = "Variable" ->
            LET found == get(st.env, expr.name)
                st1 == Log(st, [ev |-> "get", name |-> expr.name,
                                found |-> found.some,
                                val |-> IF found.some THEN found.val ELSE Nil,
                                act |-> ctx.act, params |-> ctx.params])
            IN  IF found.some
                THEN Ok(found.val, st1)
                ELSE Err("Undefined variable '" \o expr.name \o "'.", st1)
      [] expr.e = "Binary" -> evaluate_binary(expr, st, ctx)
      [] expr.e = "Array" -> evaluate_array(expr, st, ctx)
      [] expr.e = "Call" -> evaluate_call(expr, st, ctx)

(***************************************************************************)
(* The activations of interpret and execute.  A frame is at pc              *)
(*   "exec"     about to call execute on its current statement              *)
(*   "after"    execute returned Ok(()) for that statement                  *)
(*   "iter"     (loop) at the head of the iteration loop                    *)
(*   "iterend"  (loop) the loop over the body statements has ended          *)
(* A loop frame also records, for the properties, whether a Break has       *)
(* executed in this loop (broke) and in its current iteration (brokeIter).  *)
(***************************************************************************)
InterpretFrame(idx) == [fn |-> "interpret", idx |-> idx, pc |-> "exec"]
IfFrame(branch) == [fn |-> "if", branch |-> branch, pc |-> "exec"]
LoopFrame(counted, iterations, body, previous_in_loop) ==
    [fn |-> "loop", counted |-> counted, iterations |-> iterations, i |-> 0,
     body |-> body, idx |-> 1, pc |-> "iter",
     previous_in_loop |-> previous_in_loop,
     broke |-> FALSE, brokeIter |-> FALSE]

Top == stack[Len(stack)]

Current(frame) ==
    CASE frame.fn = "interpret" -> statements[frame.idx]
      [] frame.fn = "loop" -> frame.body[frame.idx]
      [] frame.fn = "if" -> frame.branch

Executing(kind) ==
    /\ status = "running"
    /\ Len(stack) > 0
    /\ Top.pc = "exec"
    /\ Current(Top).s = kind

At(fn, pc) ==
    /\ status = "running"
    /\ Len(stack) > 0
    /\ Top.fn = fn
    /\ Top.pc = pc

IsLoop(frame) == frame.fn = "loop"
LoopDepth(stk) == Cardinality({k \in 1..Len(stk) : IsLoop(stk[k])})
InnermostLoop(stk) ==
    IF LoopDepth(stk) = 0 THEN 0
    ELSE CHOOSE k \in 1..Len(stk) :
            IsLoop(stk[k]) /\ \A m \in (k + 1)..Len(stk) : ~IsLoop(stk[m])

\* execute returned Ok(()) to the frame on top
Returned(stk) == [stk EXCEPT ![Len(stk)].pc = "after"]
\* the frame on top returned Ok(()) to its caller
PopReturn(stk) == Returned(SubSeq(stk, 1, Len(stk) - 1))
Push(stk, frame) == Append(stk, frame)

\* records the Break in the innermost active loop
MarkBreak(stk) ==
    IF InnermostLoop(stk) = 0 THEN stk
    ELSE [stk EXCEPT ![InnermostLoop(stk)].broke = TRUE,
                     ![InnermostLoop(stk)].brokeIter = TRUE]

Println(out, line) == IF Len(out) < MaxOut THEN Append(out, line) ELSE out

BreakOutsideLoop == "'sybau' statement outside of a loop."

\* an error that is recorded while execution goes on with the next statement
Fail_and_go_on(msg) ==
    /\ status' = status
    /\ error' = msg
    /\ stack' = Returned(stack)

\* `?`: the error leaves every activation and interpret returns it
Fail(msg) ==
    /\ status' = "err"
    /\ error' = msg
    /\ stack' = <<>>

Evaluate(expr) == evaluate(expr, EvalState(environment, stdin, 0, <<>>), TopContext)

(***************************************************************************)
(* Interpreter::interpret is called on a new Interpreter                    *)
(***************************************************************************)
Interpret(program, input) ==
    /\ status = "idle"
    /\ statements' = program
    /\ stdin' = input
    /\ IF Len(program) = 0
       THEN status' = "ok" /\ stack' = <<>>
       ELSE status' = "running" /\ stack' = <<InterpretFrame(1)>>
    /\ UNCHANGED <<environment, in_loop, should_break, output, error, trace, lastCall>>

\* interpret, lines 25-30: the check after execute, and the next statement
InterpretCheck ==
    /\ At("interpret", "after")
    /\ IF should_break
       THEN Fail(BreakOutsideLoop)
       ELSE IF Top.idx < Len(statements)
       THEN /\ stack' = <<InterpretFrame(Top.idx + 1)>>
            /\ UNCHANGED <<status, error>>
       ELSE /\ status' = "ok"
            /\ stack' = <<>>
            /\ UNCHANGED error
    /\ UNCHANGED <<statements, environment, in_loop, should_break, output, stdin,
                   trace, lastCall>>

ExecExpression ==
    /\ Executing("Expression")
    /\ LET r == Evaluate(Current(Top).expr)
       IN  /\ environment' = r.st.env
           /\ stdin' = r.st.stdin
           /\ trace' = r.st.trace
           /\ IF r.ok
              THEN stack' = Returned(stack) /\ UNCHANGED <<status, error>>
              ELSE Fail(r.err)
    /\ UNCHANGED <<statements, in_loop, should_break, output, lastCall>>

ExecPrint ==
    /\ Executing("Print")
    /\ LET r == Evaluate(Current(Top).expr)
       IN  /\ environment' = r.st.env
           /\ stdin' = r.st.stdin
           /\ trace' = r.st.trace
           /\ IF r.ok
              THEN /\ output' = Println(output, to_string(r.val))
                   /\ stack' = Returned(stack)
                   /\ UNCHANGED <<status, error>>
              ELSE Fail(r.err) /\ UNCHANGED output
    /\ UNCHANGED <<statements, in_loop, should_break, lastCall>>

ExecVar ==
    /\ Executing("Var")
    /\ LET stmt == Current(Top)
           r == IF stmt.initializer.some
                THEN Evaluate(stmt.initializer.val)
                ELSE Ok(Nil, EvalState(environment, stdin, 0, <<>>))
       IN  /\ stdin' = r.st.stdin
           /\ trace' = r.st.trace
           /\ IF r.ok
              THEN /\ environment' = define(r.st.env, stmt.name, r.val)
                   /\ stack' = Returned(stack)
                   /\ UNCHANGED <<status, error>>
              ELSE /\ environment' = r.st.env
                   /\ Fail(r.err)
    /\ UNCHANGED <<statements, in_loop, should_break, output, lastCall>>

ExecFunction ==
    /\ Executing("Function")
    /\ LET stmt == Current(Top)
       IN  environment' = define(environment, stmt.name,
                                 FunctionValue(stmt.name, stmt.params, stmt.body))
    /\ stack' = Returned(stack)
    /\ trace' = <<>>
    /\ UNCHANGED <<statements, in_loop, should_break, output, stdin, status, error,
                   lastCall>>

ExecIf ==
    /\ Executing("If")
    /\ LET stmt == Current(Top)
           r == Evaluate(stmt.condition)
       IN  /\ environment' = r.st.env
           /\ stdin' = r.st.stdin
           /\ trace' = r.st.trace
           /\ IF ~r.ok
              THEN Fail(r.err)
              ELSE /\ UNCHANGED <<status, error>>
                   /\ IF is_truthy(r.val)
                      THEN stack' = Push(stack, IfFrame(stmt.then_branch))
                      ELSE IF stmt.else_branch.some
                      THEN stack' = Push(stack, IfFrame(stmt.else_branch.val))
                      ELSE stack' = Returned(stack)
    /\ UNCHANGED <<statements, in_loop, should_break, output, lastCall>>

\* execute(If), line 63: the branch returned
IfReturn ==
    /\ At("if", "after")
    /\ stack' = PopReturn(stack)
    /\ UNCHANGED <<statements, environment, in_loop, should_break, output, stdin,
                   status, error, trace, lastCall>>

\* a Break that sets the flag whether or not a loop is active
break_always(inside) == [ok |-> TRUE, flag |-> TRUE]

\* execute(Break): the flag to set, or the error
break(inside) ==
    IF inside THEN [ok |-> TRUE, flag |-> TRUE] ELSE [ok |-> FALSE, flag |-> FALSE]

ExecBreak ==
    /\ Executing("Break")
    /\ LET b == break(in_loop)
       IN  IF b.ok
           THEN /\ should_break' = b.flag
                /\ stack' = Returned(MarkBreak(stack))
                /\ UNCHANGED <<status, error>>
           ELSE /\ Fail(BreakOutsideLoop)
                /\ UNCHANGED should_break
    /\ trace' = <<>>
    /\ UNCHANGED <<statements, environment, in_loop, output, stdin, lastCall>>

\* execute(Loop), lines 66-75 and 91-96: entry, and the count
ExecLoop ==
    /\ Executing("Loop")
    /\ in_loop' = TRUE
    /\ LET stmt == Current(Top)
       IN  IF stmt.condition.some
           THEN LET r == Evaluate(stmt.condition.val)
                IN  /\ environment' = r.st.env
                    /\ stdin' = r.st.stdin
                    /\ trace' = r.st.trace
                    /\ IF ~r.ok
                       THEN Fail(r.err)
                       ELSE IF r.val.kind # "Number"
                       THEN Fail("Loop condition must evaluate to a number.")
                       ELSE /\ stack' = Push(stack, LoopFrame(TRUE, as_i64(r.val.q),
                                                             stmt.body, in_loop))
                            /\ UNCHANGED <<status, error>>
           ELSE /\ stack' = Push(stack, LoopFrame(FALSE, 0, stmt.body, in_loop))
                /\ trace' = <<>>
                /\ UNCHANGED <<environment, stdin, status, error>>
    /\ UNCHANGED <<statements, should_break, output, lastCall>>

\* what in_loop is set to when a loop exits; here always false
restore_in_loop_false(frame) == FALSE

\* line 113: self.in_loop = previous_in_loop
restore_in_loop(frame) == frame.previous_in_loop

\* lines 76 and 96, the head of `for _ in 0..iterations` / `loop`, and
\* lines 113-114 when the range is exhausted
LoopIter ==
    /\ At("loop", "iter")
    /\ IF Top.counted /\ Top.i >= Top.iterations
       THEN /\ in_loop' = restore_in_loop(Top)
            /\ stack' = PopReturn(stack)
       ELSE /\ stack' = [stack EXCEPT ![Len(stack)] =
                           [@ EXCEPT !.idx = 1, !.brokeIter = FALSE,
                                     !.pc = IF Len(Top.body) = 0 THEN "iterend"
                                            ELSE "exec"]]
            /\ UNCHANGED in_loop
    /\ UNCHANGED <<statements, environment, should_break, output, stdin, status,
                   error, trace, lastCall>>

\* a body check that clears the flag and goes on with the next statement
body_check_no_break(flag, frame) ==
    [flag |-> FALSE,
     frame |-> IF frame.idx < Len(frame.body)
               THEN [frame EXCEPT !.idx = @ + 1, !.pc = "exec"]
               ELSE [frame EXCEPT !.pc = "iterend"]]

\* lines 78-84 and 98-104: after execute(stmt) in `for stmt in body`
body_check(flag, frame) ==
    IF flag
    THEN [flag |-> FALSE, frame |-> [frame EXCEPT !.pc = "iterend"]]
    ELSE [flag |-> FALSE,
          frame |-> IF frame.idx < Len(frame.body)
                    THEN [frame EXCEPT !.idx = @ + 1, !.pc = "exec"]
                    ELSE [frame EXCEPT !.pc = "iterend"]]

LoopBodyCheck ==
    /\ At("loop", "after")
    /\ LET c == body_check(should_break, Top)
       IN  /\ should_break' = c.flag
           /\ stack' = [stack EXCEPT ![Len(stack)] = c.frame]
    /\ UNCHANGED <<statements, environment, in_loop, output, stdin, status, error,
                   trace, lastCall>>

\* lines 86-89 and 106-109: after the body, and lines 113-114 on a break
LoopIterCheck ==
    /\ At("loop", "iterend")
    /\ IF should_break
       THEN /\ should_break' = FALSE
            /\ in_loop' = restore_in_loop(Top)
            /\ stack' = PopReturn(stack)
       ELSE /\ stack' = [stack EXCEPT ![Len(stack)] =
                           [@ EXCEPT !.i = IF Top.counted THEN @ + 1 ELSE @,
                                     !.pc = "iter"]]
            /\ UNCHANGED <<in_loop, should_break>>
    /\ UNCHANGED <<statements, environment, output, stdin, status, error, trace,
                   lastCall>>

(***************************************************************************)
(* The statement lists handed to Interpreter::interpret, each with a source *)
(* text it stands for.  The node of an assignment carries the Pmo token,    *)
(* which is what the Pmo arm of evaluate matches on; the node that          *)
(* Parser::assignment builds carries another token (see assignment below),  *)
(* and RunSpec runs the programs from their source text.                    *)
(***************************************************************************)
Num(n) == Literal(Whole(n))
\* Parser::unary: `-e` is parsed as the subtraction 0 - e
Neg(expr) == Binary(Literal(Number(0)), "Minus", expr)
Str(s) == Literal(String(s))

\* goon(3) yap 1; edge
ProgCount3 == <<LoopStmt(Some(Num(3)), <<PrintStmt(Num(1))>>)>>
\* goon(3) yap 1; sybau; edge
ProgCountBreak == <<LoopStmt(Some(Num(3)), <<PrintStmt(Num(1)), BreakStmt>>)>>
\* goon yap 1; sybau; edge yap 2;
ProgUnboundedBreak ==
    <<LoopStmt(None, <<PrintStmt(Num(1)), BreakStmt>>), PrintStmt(Num(2))>>
\* goon(2) sybau; yap 1; yap 2; edge yap 3;
ProgBreakFirst ==
    <<LoopStmt(Some(Num(2)), <<BreakStmt, PrintStmt(Num(1)), PrintStmt(Num(2))>>),
      PrintStmt(Num(3))>>
\* ts i pmo 0; goon(3) i pmo i + 1; yo i == 2 sybau; gurt yap i; yap "t"; edge
ProgIfBreak ==
    <<VarStmt("i", Some(Num(0))),
      LoopStmt(Some(Num(3)),
               <<ExpressionStmt(Binary(Variable("i"), "Pmo",
                                       Binary(Variable("i"), "Plus", Num(1)))),
                 IfStmt(Binary(Variable("i"), "Equal", Num(2)),
                        BreakStmt, Some(PrintStmt(Variable("i")))),
                 PrintStmt(Str("t"))>>)>>
\* yap 1; sybau; yap 2;
ProgBreakTop == <<PrintStmt(Num(1)), BreakStmt, PrintStmt(Num(2))>>
\* yo 1 sybau; yap 2;
ProgBreakInIf == <<IfStmt(Num(1), BreakStmt, None), PrintStmt(Num(2))>>
\* goon(2) yap 1; edge sybau; yap 2;
ProgBreakAfterLoop ==
    <<LoopStmt(Some(Num(2)), <<PrintStmt(Num(1))>>), BreakStmt, PrintStmt(Num(2))>>
\* goon(2) goon(2) yap 1; sybau; yap 9; edge yap 2; edge yap 3;
ProgNested ==
    <<LoopStmt(Some(Num(2)),
               <<LoopStmt(Some(Num(2)),
                          <<PrintStmt(Num(1)), BreakStmt, PrintStmt(Num(9))>>),
                 PrintStmt(Num(2))>>),
      PrintStmt(Num(3))>>
\* goon(2) goon(1) yo 1 sybau; edge yap 2; sybau; yap 8; edge sybau;
ProgNestedBoth ==
    <<LoopStmt(Some(Num(2)),
               <<LoopStmt(Some(Num(1)), <<IfStmt(Num(1), BreakStmt, None)>>),
                 PrintStmt(Num(2)), BreakStmt, PrintStmt(Num(8))>>),
      BreakStmt>>
\* goon(0) yap 1; edge goon(2) edge ts n; yo n yap 1; gurt yap 2; yo 1 == 2 yap 3;
ProgEmptyLoops ==
    <<LoopStmt(Some(Num(0)), <<PrintStmt(Num(1))>>),
      LoopStmt(Some(Num(2)), <<>>),
      VarStmt("n", None),
      IfStmt(Variable("n"), PrintStmt(Num(1)), Some(PrintStmt(Num(2)))),
      IfStmt(Binary(Num(1), "Equal", Num(2)), PrintStmt(Num(3)), None)>>
\* goon("a") yap 1; edge
ProgLoopNotNumber == <<LoopStmt(Some(Str("a")), <<PrintStmt(Num(1))>>)>>
\* goon(2) yap q; edge
ProgLoopError == <<LoopStmt(Some(Num(2)), <<PrintStmt(Variable("q"))>>)>>

\* hawk add(a, b) tuah a + b;
DeclAdd ==
    FunctionStmt("add", <<"a", "b">>, Binary(Variable("a"), "Plus", Variable("b")))
\* hawk add(a, b) tuah a + b; yap add(2, 3);
ProgAdd == <<DeclAdd, PrintStmt(Call(Variable("add"), <<Num(2), Num(3)>>))>>
\* hawk add(a, b) tuah a + b; yap add(1); yap 2;
ProgTooFew ==
    <<DeclAdd, PrintStmt(Call(Variable("add"), <<Num(1)>>)), PrintStmt(Num(2))>>
\* hawk add(a, b) tuah a + b; yap add(1, 2, 3); yap 2;
ProgTooMany ==
    <<DeclAdd, PrintStmt(Call(Variable("add"), <<Num(1), Num(2), Num(3)>>)),
      PrintStmt(Num(2))>>
\* hawk k() tuah 7; yap k(); yap k(gyat z { 1 });
ProgNoParams ==
    <<FunctionStmt("k", <<>>, Num(7)),
      PrintStmt(Call(Variable("k"), <<>>)),
      PrintStmt(Call(Variable("k"), <<Array("z", <<Num(1)>>)>>))>>
\* ts g pmo 5; hawk f(a) tuah a + g; yap f(1);
ProgCallerVar ==
    <<VarStmt("g", Some(Num(5))),
      FunctionStmt("f", <<"a">>, Binary(Variable("a"), "Plus", Variable("g"))),
      PrintStmt(Call(Variable("f"), <<Num(1)>>))>>
\* hawk f(a) tuah f; yap f(1);
ProgOwnName ==
    <<FunctionStmt("f", <<"a">>, Variable("f")),
      PrintStmt(Call(Variable("f"), <<Num(1)>>))>>
\* hawk inc(n) tuah n + 1; hawk f(a) tuah inc(a); yap f(1);
ProgOtherFunction ==
    <<FunctionStmt("inc", <<"n">>, Binary(Variable("n"), "Plus", Num(1))),
      FunctionStmt("f", <<"a">>, Call(Variable("inc"), <<Variable("a")>>)),
      PrintStmt(Call(Variable("f"), <<Num(1)>>))>>
\* ts g pmo 1; hawk f(a) tuah gyat g { a } == g; yap f(2); yap g;
ProgArrayInBody ==
    <<VarStmt("g", Some(Num(1))),
      FunctionStmt("f", <<"a">>,
                   Binary(Array("g", <<Variable("a")>>), "Equal", Variable("g"))),
      PrintStmt(Call(Variable("f"), <<Num(2)>>)),
      PrintStmt(Variable("g"))>>
\* hawk f(a, a) tuah a; yap f(1, 2);
ProgSameParam ==
    <<FunctionStmt("f", <<"a", "a">>, Variable("a")),
      PrintStmt(Call(Variable("f"), <<Num(1), Num(2)>>))>>
\* hawk f(a) tuah a pmo a + 1; ts a pmo 10; yap f(1); yap a;
ProgAssignParam ==
    <<FunctionStmt("f", <<"a">>,
                   Binary(Variable("a"), "Pmo", Binary(Variable("a"), "Plus", Num(1)))),
      VarStmt("a", Some(Num(10))),
      PrintStmt(Call(Variable("f"), <<Num(1)>>)),
      PrintStmt(Variable("a"))>>
\* hawk app(f, x) tuah f(x); hawk inc(n) tuah n + 1; yap app(inc, 4);
ProgApply ==
    <<FunctionStmt("app", <<"f", "x">>, Call(Variable("f"), <<Variable("x")>>)),
      FunctionStmt("inc", <<"n">>, Binary(Variable("n"), "Plus", Num(1))),
      PrintStmt(Call(Variable("app"), <<Variable("inc"), Num(4)>>))>>
\* hawk sub(a, b) tuah a - b; ts x pmo 1; goon(2) x pmo sub(x pmo 9, gyat y { x }); yap x; yap y; edge
ProgCallInLoop ==
    <<FunctionStmt("sub", <<"a", "b">>,
                   Binary(Variable("a"), "Minus", Variable("b"))),
      VarStmt("x", Some(Num(1))),
      LoopStmt(Some(Num(2)),
               <<ExpressionStmt(
                    Binary(Variable("x"), "Pmo",
                           Call(Variable("sub"),
                                <<Binary(Variable("x"), "Pmo", Num(9)),
                                  Array("y", <<Variable("x")>>)>>))),
                 PrintStmt(Variable("x")),
                 PrintStmt(Variable("y"))>>)>>
\* ts x pmo 1; yap x(2);
ProgNotCallable ==
    <<VarStmt("x", Some(Num(1))), PrintStmt(Call(Variable("x"), <<Num(2)>>))>>
\* hawk twice(s) tuah s + s; ts x pmo yeet; yap twice(x); yap twice(yeet);
ProgInput ==
    <<FunctionStmt("twice", <<"s">>, Binary(Variable("s"), "Plus", Variable("s"))),
      VarStmt("x", Some(Yeet)),
      PrintStmt(Call(Variable("twice"), <<Variable("x")>>)),
      PrintStmt(Call(Variable("twice"), <<Yeet>>))>>

\* ts x pmo 5; x pmo x + 1; yap x;
ProgReassign ==
    <<VarStmt("x", Some(Num(5))),
      ExpressionStmt(Binary(Variable("x"), "Pmo",
                            Binary(Variable("x"), "Plus", Num(1)))),
      PrintStmt(Variable("x"))>>
\* ts x pmo 1; ts z pmo 2; x pmo gyat y { z pmo 3 }; yap x; yap y; yap z;
ProgAssignArray ==
    <<VarStmt("x", Some(Num(1))),
      VarStmt("z", Some(Num(2))),
      ExpressionStmt(Binary(Variable("x"), "Pmo",
                            Array("y", <<Binary(Variable("z"), "Pmo", Num(3))>>))),
      PrintStmt(Variable("x")),
      PrintStmt(Variable("y")),
      PrintStmt(Variable("z"))>>
\* ts x pmo 1; yap (x pmo 2) + x + (x pmo 3) + x;
ProgAssignTwice ==
    <<VarStmt("x", Some(Num(1))),
      PrintStmt(Binary(Binary(Binary(
                    Grouping(Binary(Variable("x"), "Pmo", Num(2))),
                    "Plus", Variable("x")),
                    "Plus", Grouping(Binary(Variable("x"), "Pmo", Num(3)))),
                    "Plus", Variable("x")))>>

\* ts a pmo 1; yap a; a pmo 2; yap nope; yap a; a pmo 3;
ProgErrorMiddle ==
    <<VarStmt("a", Some(Num(1))),
      PrintStmt(Variable("a")),
      ExpressionStmt(Binary(Variable("a"), "Pmo", Num(2))),
      PrintStmt(Variable("nope")),
      PrintStmt(Variable("a")),
      ExpressionStmt(Binary(Variable("a"), "Pmo", Num(3)))>>
\* ts a pmo 1; goon(2) yap a; a pmo a + nope; yap 9; edge yap a;
ProgErrorInLoop ==
    <<VarStmt("a", Some(Num(1))),
      LoopStmt(Some(Num(2)),
               <<PrintStmt(Variable("a")),
                 ExpressionStmt(Binary(Variable("a"), "Pmo",
                                       Binary(Variable("a"), "Plus",
                                              Variable("nope")))),
                 PrintStmt(Num(9))>>),
      PrintStmt(Variable("a"))>>
\* ts a pmo 1; yap (a pmo 2) / 0; yap a;
ProgErrorAfterAssign ==
    <<VarStmt("a", Some(Num(1))),
      PrintStmt(Binary(Grouping(Binary(Variable("a"), "Pmo", Num(2))),
                       "Slash", Num(0))),
      PrintStmt(Variable("a"))>>

\* goon(2.5) yap 1; edge
ProgCountFraction == <<LoopStmt(Some(Literal(Number(5))), <<PrintStmt(Num(1))>>)>>
\* goon(0.5) yap 1; edge yap 2;
ProgCountBelowOne ==
    <<LoopStmt(Some(Literal(Number(1))), <<PrintStmt(Num(1))>>),
      PrintStmt(Num(2))>>
\* goon(-2) yap 1; edge goon(-1.5) yap 1; edge goon(0) yap 1; edge yap 2;
ProgCountNegative ==
    <<LoopStmt(Some(Neg(Num(2))), <<PrintStmt(Num(1))>>),
      LoopStmt(Some(Neg(Literal(Number(3)))), <<PrintStmt(Num(1))>>),
      LoopStmt(Some(Num(0)), <<PrintStmt(Num(1))>>),
      PrintStmt(Num(2))>>
\* ts n pmo 2; goon(n) n pmo n + 1; yap n; edge
ProgCountChanged ==
    <<VarStmt("n", Some(Num(2))),
      LoopStmt(Some(Variable("n")),
               <<ExpressionStmt(Binary(Variable("n"), "Pmo",
                                       Binary(Variable("n"), "Plus", Num(1)))),
                 PrintStmt(Variable("n"))>>)>>
\* goon(yeet) yap 1; edge
ProgCountInput == <<LoopStmt(Some(Yeet), <<PrintStmt(Num(1))>>)>>

\* ts n; hawk f() tuah 1;
\* yo n yap 1; gurt yap 0;   yo 0 yap 1; gurt yap 0;   yo "" yap 1; gurt yap 0;
\* yo gyat a { } yap 1; gurt yap 0;   yo f yap 1; gurt yap 0;
\* yo 1 == 1 yap 1; gurt yap 0;   yo 1 == 2 yap 1; gurt yap 0;   yo n yap 1;
ProgTruthy ==
    <<VarStmt("n", None),
      FunctionStmt("f", <<>>, Num(1)),
      IfStmt(Variable("n"), PrintStmt(Num(1)), Some(PrintStmt(Num(0)))),
      IfStmt(Num(0), PrintStmt(Num(1)), Some(PrintStmt(Num(0)))),
      IfStmt(Str(""), PrintStmt(Num(1)), Some(PrintStmt(Num(0)))),
      IfStmt(Array("a", <<>>), PrintStmt(Num(1)), Some(PrintStmt(Num(0)))),
      IfStmt(Variable("f"), PrintStmt(Num(1)), Some(PrintStmt(Num(0)))),
      IfStmt(Binary(Num(1), "Equal", Num(1)),
             PrintStmt(Num(1)), Some(PrintStmt(Num(0)))),
      IfStmt(Binary(Num(1), "Equal", Num(2)),
             PrintStmt(Num(1)), Some(PrintStmt(Num(0)))),
      IfStmt(Variable("n"), PrintStmt(Num(1)), None)>>
\* yo yeet yap 1; gurt yap 0; yap yeet;
ProgIfInput ==
    <<IfStmt(Yeet, PrintStmt(Num(1)), Some(PrintStmt(Num(0)))),
      PrintStmt(Yeet)>>
\* ts c pmo 0; yo c pmo c + 1 yap c; gurt yap 0 - c; yap c;
ProgIfAssign ==
    <<VarStmt("c", Some(Num(0))),
      IfStmt(Binary(Variable("c"), "Pmo", Binary(Variable("c"), "Plus", Num(1))),
             PrintStmt(Variable("c")),
             Some(PrintStmt(Neg(Variable("c"))))),
      PrintStmt(Variable("c"))>>

\* ts x pmo 0; yap gyat a { x pmo 1, x pmo 2, x }; yap a; yap x;
ProgArrayOrder ==
    <<VarStmt("x", Some(Num(0))),
      PrintStmt(Array("a", <<Binary(Variable("x"), "Pmo", Num(1)),
                             Binary(Variable("x"), "Pmo", Num(2)),
                             Variable("x")>>)),
      PrintStmt(Variable("a")),
      PrintStmt(Variable("x"))>>
\* ts a pmo 5; gyat a { a, a + 1 }; yap a;
ProgArrayOverwrite ==
    <<VarStmt("a", Some(Num(5))),
      ExpressionStmt(Array("a", <<Variable("a"),
                                  Binary(Variable("a"), "Plus", Num(1))>>)),
      PrintStmt(Variable("a"))>>
\* ts a pmo 0; gyat b { 1, nope }; yap a;
ProgArrayFails ==
    <<VarStmt("a", Some(Num(0))),
      ExpressionStmt(Array("b", <<Num(1), Variable("nope")>>)),
      PrintStmt(Variable("a"))>>
\* gyat a { gyat a { 1 }, nope }; yap a;
ProgArrayFailsNested ==
    <<ExpressionStmt(Array("a", <<Array("a", <<Num(1)>>), Variable("nope")>>)),
      PrintStmt(Variable("a"))>>
\* ts a pmo 0; yap gyat a { a pmo 1, 1 / 0 };
ProgArrayFailsAssigned ==
    <<VarStmt("a", Some(Num(0))),
      PrintStmt(Array("a", <<Binary(Variable("a"), "Pmo", Num(1)),
                             Binary(Num(1), "Slash", Num(0))>>))>>

\* yap "hi"; yap "";
ProgPlainStrings == <<PrintStmt(Str("hi")), PrintStmt(Str(""))>>
\* yap "__YEET__";   a String token, no yeet keyword
ProgMarkerString == <<PrintStmt(Str("__YEET__"))>>

\* hawk f(g) tuah g(g); yap f(f);
ProgSelfApply ==
    <<FunctionStmt("f", <<"g">>, Call(Variable("g"), <<Variable("g")>>)),
      PrintStmt(Call(Variable("f"), <<Variable("f")>>))>>

\* ts n; ts b pmo 1 == 1; ts s pmo "a"; ts k pmo 2; hawk f() tuah 1;
\* gyat a { 1, 2 }; gyat c { 1, 2 };
\* yap k == k; yap s == s; yap b == b; yap n == n; yap a == a; yap f == f;
\* yap a == c; yap a != a;
ProgReflexive ==
    <<VarStmt("n", None),
      VarStmt("b", Some(Binary(Num(1), "Equal", Num(1)))),
      VarStmt("s", Some(Str("a"))),
      VarStmt("k", Some(Num(2))),
      FunctionStmt("f", <<>>, Num(1)),
      ExpressionStmt(Array("a", <<Num(1), Num(2)>>)),
      ExpressionStmt(Array("c", <<Num(1), Num(2)>>)),
      PrintStmt(Binary(Variable("k"), "Equal", Variable("k"))),
      PrintStmt(Binary(Variable("s"), "Equal", Variable("s"))),
      PrintStmt(Binary(Variable("b"), "Equal", Variable("b"))),
      PrintStmt(Binary(Variable("n"), "Equal", Variable("n"))),
      PrintStmt(Binary(Variable("a"), "Equal", Variable("a"))),
      PrintStmt(Binary(Variable("f"), "Equal", Variable("f"))),
      PrintStmt(Binary(Variable("a"), "Equal", Variable("c"))),
      PrintStmt(Binary(Variable("a"), "NotEqual", Variable("a")))>>

Programs ==
    {<<>>, ProgCount3, ProgCountBreak, ProgUnboundedBreak, ProgBreakFirst,
     ProgIfBreak, ProgBreakTop, ProgBreakInIf, ProgBreakAfterLoop, ProgNested,
     ProgNestedBoth, ProgEmptyLoops, ProgLoopNotNumber, ProgLoopError,
     ProgAdd, ProgTooFew, ProgTooMany, ProgNoParams, ProgCallerVar, ProgOwnName,
     ProgOtherFunction, ProgArrayInBody, ProgSameParam, ProgAssignParam,
     ProgApply, ProgCallInLoop, ProgNotCallable, ProgInput,
     ProgReassign, ProgAssignArray, ProgAssignTwice,
     ProgErrorMiddle, ProgErrorInLoop, ProgErrorAfterAssign,
     ProgCountFraction, ProgCountBelowOne, ProgCountNegative, ProgCountChanged, ProgCountInput,
     ProgTruthy, ProgIfInput, ProgIfAssign,
     ProgArrayOrder, ProgArrayOverwrite, ProgArrayFails, ProgArrayFailsNested, ProgArrayFailsAssigned,
     ProgPlainStrings, ProgMarkerString,
     ProgSelfApply,
     ProgReflexive}

Inputs == {<<>>, <<"7", "hi">>, <<"hi", "2.5">>}

(***************************************************************************)
(* The interpreter: a new Interpreter over a new Environment                *)
(***************************************************************************)
Init ==
    /\ statements = <<>>
    /\ stack = <<>>
    /\ environment = Environment_new
    /\ in_loop = FALSE
    /\ should_break = FALSE
    /\ output = <<>>
    /\ stdin = <<>>
    /\ status = "idle"
    /\ error = ""
    /\ trace = <<>>
    /\ lastCall = [op |-> "none"]

Next ==
    \/ \E program \in Programs, input \in Inputs : Interpret(program, input)
    \/ InterpretCheck
    \/ ExecExpression
    \/ ExecPrint
    \/ ExecVar
    \/ ExecFunction
    \/ ExecIf
    \/ IfReturn
    \/ ExecBreak
    \/ ExecLoop
    \/ LoopIter
    \/ LoopBodyCheck
    \/ LoopIterCheck

Spec == Init /\ [][Next]_vars

TypeOK ==
    /\ status \in {"idle", "running", "ok", "err"}
    /\ in_loop \in BOOLEAN
    /\ should_break \in BOOLEAN
    /\ Len(output) <= MaxOut

(***************************************************************************)
(* The Environment on its own: its methods called in any order              *)
(***************************************************************************)
MaxEnvNames == 3
MaxEnvNumber == 2
EnvNames == {"n" \o ToString(k) : k \in 1..MaxEnvNames}
EnvValues == {Whole(k) : k \in 1..MaxEnvNumber} \cup {String("a"), Nil}

EnvDefine(name, value) ==
    /\ status = "idle"
    /\ environment' = define(environment, name, value)
    /\ lastCall' = [op |-> "define", name |-> name, value |-> value,
                    before |-> environment]
    /\ UNCHANGED <<statements, stack, in_loop, should_break, output, stdin, status,
                   error, trace>>

EnvAssign(name, value) ==
    /\ status = "idle"
    /\ LET a == assign(environment, name, value)
       IN  /\ environment' = a.values
           /\ lastCall' = [op |-> "assign", name |-> name, value |-> value,
                           before |-> environment, ok |-> a.ok, err |-> a.err]
    /\ UNCHANGED <<statements, stack, in_loop, should_break, output, stdin, status,
                   error, trace>>

EnvGet(name) ==
    /\ status = "idle"
    /\ lastCall' = [op |-> "get", name |-> name, before |-> environment,
                    result |-> get(environment, name)]
    /\ UNCHANGED <<statements, stack, environment, in_loop, should_break, output,
                   stdin, status, error, trace>>

\* the right operands of the assignments: a literal, a variable, and an
\* array literal, whose evaluation defines a name
EnvExprs ==
    {Literal(Whole(1)), Variable("n1"), Array("n1", <<Literal(String("a"))>>)}

\* evaluate on the expression `name pmo expr`
EnvPmo(name, expr) ==
    /\ status = "idle"
    /\ LET r == evaluate(Binary(Variable(name), "Pmo", expr),
                         EvalState(environment, <<>>, 0, <<>>), TopContext)
       IN  /\ environment' = r.st.env
           /\ lastCall' = [op |-> "pmo", name |-> name, expr |-> expr,
                           before |-> environment, ok |-> r.ok, err |-> r.err]
    /\ UNCHANGED <<statements, stack, in_loop, should_break, output, stdin, status,
                   error, trace>>

NextEnv ==
    \/ \E name \in EnvNames, value \in EnvValues : EnvDefine(name, value)
    \/ \E name \in EnvNames, value \in EnvValues : EnvAssign(name, value)
    \/ \E name \in EnvNames : EnvGet(name)
    \/ \E name \in EnvNames, expr \in EnvExprs : EnvPmo(name, expr)

EnvSpec == Init /\ [][NextEnv]_vars

(***************************************************************************)
(* Properties                                                               *)
(***************************************************************************)
Running == status = "running" /\ Len(stack) > 0
LoopFrames == {k \in 1..Len(stack) : IsLoop(stack[k])}
Range(seq) == {seq[k] : k \in 1..Len(seq)}
Events(kind) == {k \in 1..Len(trace) : trace[k].ev = kind}

\* C1: once a sybau has executed in the body of a counted loop, no further
\* iteration of that loop begins; `goon(3) yap 1; sybau; edge` prints 1 once.
C1_BreakStopsCountedLoop ==
    /\ \A k \in LoopFrames :
          (stack[k].counted /\ stack[k].broke) => stack[k].brokeIter
    /\ (statements = ProgCountBreak /\ status = "ok") => output = <<"1">>

\* C2: once a sybau has executed in the body of an unbounded loop, the loop
\* begins no further iteration (it finishes and the statement after `edge`
\* runs); `goon yap 1; sybau; edge yap 2;` prints 1 once and then 2.
C2_BreakEndsUnboundedLoop ==
    /\ \A k \in LoopFrames :
          (~stack[k].counted /\ stack[k].broke) => stack[k].brokeIter
    /\ statements = ProgUnboundedBreak
          => output \in {<<>>, <<"1">>, <<"1", "2">>}

\* C3: after a sybau has executed in an iteration of a loop body (directly or
\* inside yo/gurt branches), no further statement of that iteration is
\* executed.
C3_BreakSkipsRestOfIteration ==
    (Running /\ Top.pc = "exec") => \A k \in LoopFrames : ~stack[k].brokeIter

C3_Witness ==
    /\ Running
    /\ IsLoop(Top)
    /\ Top.brokeIter
    /\ Top.pc = "iterend"
    /\ Top.idx < Len(Top.body)
    /\ Top.body[Top.idx].s = "If"
    /\ ~should_break

\* C4: a sybau executed while no loop is active does not set the break flag
\* and fails with the break-outside-loop error, and after an error nothing
\* more of the program runs.
C4_BreakOutsideLoop ==
    [][/\ (Executing("Break") /\ LoopFrames = {})
            => (status' = "err" /\ error' = BreakOutsideLoop /\ ~should_break')
       /\ status = "err"
            => (status' = "err" /\ output' = output /\ environment' = environment)
      ]_vars

C4_Witness ==
    /\ statements = ProgBreakAfterLoop
    /\ status = "err"
    /\ error = BreakOutsideLoop
    /\ ~should_break
    /\ ~in_loop
    /\ output = <<"1", "1">>

\* C5: when a loop exits normally the break flag is clear, so a sybau of the
\* inner loop does not reach the enclosing loop, and in_loop is what it was
\* when the loop was entered: true inside an enclosing loop, false at top level.
C5_NestedLoopsIndependent ==
    [][(Running /\ IsLoop(Top) /\ Len(stack') = Len(stack) - 1 /\ status' = "running")
         => /\ ~should_break'
            /\ in_loop' = (\E k \in 1..Len(stack') : IsLoop(stack'[k]))
            /\ \A k \in 1..(Len(stack') - 1) : stack'[k] = stack[k]
            /\ stack'[Len(stack')] = [stack[Len(stack')] EXCEPT !.pc = "after"]
      ]_vars

C5_Witness ==
    /\ statements = ProgNested
    /\ Running
    /\ Len(stack) = 2
    /\ IsLoop(Top)
    /\ Top.pc = "exec"
    /\ Top.idx = 2
    /\ Top.i = 1
    /\ ~Top.broke
    /\ in_loop
    /\ output = <<"1", "1", "2", "1", "1">>

UndefinedVariable(name) == "Undefined variable '" \o name \o "'."

\* C6, as stated: in a function body every reference to a name that is not one
\* of the function's parameters fails with the undefined-variable error.
C6_OnlyParametersVisible ==
    \A k \in Events("get") :
        (trace[k].act > 0 /\ trace[k].name \notin Range(trace[k].params))
            => /\ ~trace[k].found
               /\ status = "err"
               /\ error = UndefinedVariable(trace[k].name)

DefinedByArrayBefore(k) ==
    \E j \in Events("array") :
        j < k /\ trace[j].act = trace[k].act /\ trace[j].name = trace[k].name

\* C6, amended: in a function body every reference to a name that is neither
\* one of the function's parameters nor a name an array literal evaluated
\* earlier in the same call has defined fails with the undefined-variable
\* error, whatever the caller's environment contains.
C6_OnlyParametersAndArraysVisible ==
    \A k \in Events("get") :
        (/\ trace[k].act > 0
         /\ trace[k].name \notin Range(trace[k].params)
         /\ ~DefinedByArrayBefore(k))
            => /\ ~trace[k].found
               /\ status = "err"
               /\ error = UndefinedVariable(trace[k].name)

C6_Witness ==
    /\ statements = ProgCallerVar
    /\ status = "err"
    /\ error = UndefinedVariable("g")
    /\ get(environment, "g") = Some(Whole(5))
    /\ \E k \in Events("get") :
          trace[k].act > 0 /\ trace[k].name = "g" /\ ~trace[k].found

\* C7: a call leaves the caller's environment as it was right after the
\* arguments were evaluated, and a statement's calls leave in_loop and
\* should_break unchanged.
C7_CallLeavesCallerUnchanged ==
    [][(/\ Running
        /\ Top.pc = "exec"
        /\ Current(Top).s \in {"Expression", "Print", "Var", "If"}
        /\ trace' # <<>>)
         => /\ \A k \in 1..Len(trace') :
                  trace'[k].ev = "return"
                    => \E j \in 1..(k - 1) :
                          /\ trace'[j].ev = "body"
                          /\ trace'[j].act = trace'[k].act
                          /\ trace'[j].caller = trace'[k].caller
            /\ (\E k \in 1..Len(trace') : trace'[k].ev = "return")
                  => (in_loop' = in_loop /\ should_break' = should_break)
      ]_vars

C7_Witness ==
    /\ statements = ProgAssignParam
    /\ Running
    /\ get(environment, "a") = Some(Whole(10))
    /\ output = <<"2">>
    /\ \E k \in Events("return") : trace[k].ok /\ trace[k].val = Whole(2)

\* C8: a call whose argument count differs from the parameter count fails with
\* the argument-count error; no parameter is bound and the body is not
\* evaluated (the mismatch is the last thing the evaluation does).
C8_ArgumentCountChecked ==
    \A k \in Events("call_function") :
        Len(trace[k].params) # Len(trace[k].arguments)
            => /\ k = Len(trace)
               /\ status = "err"
               /\ error = "Expected " \o ToString(Len(trace[k].params))
                          \o " arguments but got "
                          \o ToString(Len(trace[k].arguments)) \o "."

C8_Witness ==
    /\ statements = ProgTooMany
    /\ status = "err"
    /\ error = "Expected 2 arguments but got 3."
    /\ output = <<>>
    /\ Events("call_function") # {}
    /\ Events("bind") = {}
    /\ Events("body") = {}

\* C9, as stated: the body is evaluated in an environment that binds every
\* parameter p_i to the argument v_i.
C9_PositionalBinding ==
    \A k \in Events("body") :
        \A p \in 1..Len(trace[k].params) :
            get(trace[k].env, trace[k].params[p]) = Some(trace[k].arguments[p])

\* C9, amended: the body is evaluated in an environment whose names are the
\* parameters, each bound to the argument at the last position where that
\* parameter name occurs (p_i to v_i when the names are distinct);
\* add(2, 3) yields 5.
C9_PositionalBindingLastWins ==
    /\ \A k \in Events("body") :
          /\ Names(trace[k].env) = Range(trace[k].params)
          /\ \A p \in 1..Len(trace[k].params) :
                (\A r \in (p + 1)..Len(trace[k].params) :
                    trace[k].params[r] # trace[k].params[p])
                  => get(trace[k].env, trace[k].params[p])
                        = Some(trace[k].arguments[p])
    /\ (statements = ProgAdd /\ status = "ok") => output = <<"5">>

C9_Witness ==
    /\ statements = ProgAdd
    /\ status = "ok"
    /\ output = <<"5">>
    /\ \E k \in Events("body") :
          /\ trace[k].params = <<"a", "b">>
          /\ trace[k].arguments = <<Whole(2), Whole(3)>>

\* C10: after define(name, value), get(name) returns value, every other name
\* is bound as before, and there is exactly one binding per name (defining a
\* bound name does not add a binding).
C10_DefineOverwrites ==
    lastCall.op = "define"
        => /\ get(environment, lastCall.name) = Some(lastCall.value)
           /\ \A n \in (Names(lastCall.before) \cup EnvNames) \ {lastCall.name} :
                 get(environment, n) = get(lastCall.before, n)
           /\ Names(environment) = Names(lastCall.before) \cup {lastCall.name}
           /\ Cardinality(environment) = Cardinality(Names(environment))
           /\ lastCall.name \in Names(lastCall.before)
                 => Cardinality(environment) = Cardinality(lastCall.before)

C10_Witness ==
    /\ lastCall.op = "define"
    /\ lastCall.name \in Names(lastCall.before)
    /\ get(lastCall.before, lastCall.name) # Some(lastCall.value)
    /\ get(environment, lastCall.name) = Some(lastCall.value)
    /\ Cardinality(environment) = MaxEnvNames

\* the events after event k that give `name` a value in the activation `act`
Rebinds(k, j, name, act) ==
    \E m \in (k + 1)..(j - 1) :
        /\ trace[m].ev \in {"pmo", "array"}
        /\ trace[m].name = name
        /\ trace[m].act = act

\* the reads of x after the assignment k, up to the next one that binds x,
\* return the assigned value
LaterReads(k) ==
    \A j \in Events("get") :
        (/\ j > k
         /\ trace[j].name = trace[k].name
         /\ trace[j].act = trace[k].act
         /\ ~Rebinds(k, j, trace[k].name, trace[k].act))
            => trace[j].found /\ trace[j].val = trace[k].val

\* C11: after `x pmo e` evaluates successfully x is bound to the value of e,
\* later reads of x return it, and every other binding and the set of bound
\* names are what they were before `x pmo e` was evaluated.
C11_AssignReplacesInPlace ==
    /\ \A k \in Events("pmo") :
          /\ contains_key(trace[k].before, trace[k].name)
          /\ get(trace[k].after, trace[k].name) = Some(trace[k].val)
          /\ LaterReads(k)
          /\ Names(trace[k].after) = Names(trace[k].before)
          /\ \A n \in Names(trace[k].before) \ {trace[k].name} :
                get(trace[k].after, n) = get(trace[k].before, n)
    /\ (statements = ProgReassign /\ status = "ok") => output = <<"6">>

\* C11, amended: after `x pmo e` evaluates successfully x is bound to the
\* value of e and later reads of x return it until x is next defined or
\* assigned; the assignment itself changes no other binding and binds no
\* new name, so every other binding and the set of bound names are what the
\* evaluation of e left (an assignment or an array literal inside e keeps
\* its effect).
C11_AssignReplacesAfterOperand ==
    /\ \A k \in Events("pmo") :
          /\ contains_key(trace[k].before, trace[k].name)
          /\ get(trace[k].after, trace[k].name) = Some(trace[k].val)
          /\ LaterReads(k)
          /\ Names(trace[k].after) = Names(trace[k].mid)
          /\ Names(trace[k].before) \subseteq Names(trace[k].after)
          /\ \A n \in Names(trace[k].mid) \ {trace[k].name} :
                get(trace[k].after, n) = get(trace[k].mid, n)
    /\ (statements = ProgReassign /\ status = "ok") => output = <<"6">>
    /\ (statements = ProgAssignTwice /\ status = "ok") => output = <<"10">>

C11_Witness ==
    /\ statements = ProgAssignArray
    /\ status = "running"
    /\ \E k \in Events("pmo") :
          /\ trace[k].name = "x"
          /\ trace[k].val = ArrayValue(<<Whole(3)>>)
          /\ Names(trace[k].before) = {"x", "z"}
          /\ get(trace[k].after, "z") = Some(Whole(3))
          /\ get(environment, "x") = Some(trace[k].val)
          /\ get(environment, "y") = Some(trace[k].val)

\* C12: Environment::assign on an unbound name, and the expression `y pmo e`
\* with y unbound, fail with the undefined-variable error and leave the
\* environment exactly as it was.
C12_AssignCannotDeclare ==
    (/\ lastCall.op \in {"assign", "pmo"}
     /\ lastCall.name \notin Names(lastCall.before))
        => /\ ~lastCall.ok
           /\ lastCall.err = UndefinedVariable(lastCall.name)
           /\ environment = lastCall.before
           /\ get(environment, lastCall.name) = None

C12_Witness ==
    /\ lastCall.op = "pmo"
    /\ lastCall.name = "n2"
    /\ lastCall.expr.e = "Array"
    /\ ~lastCall.ok
    /\ Names(environment) = {"n3"}

\* the names the statement that has just been executed assigned or defined
\* by an expression of the program's own activation
Touched(tr) ==
    {tr[k].name : k \in {j \in 1..Len(tr) :
                            tr[j].ev \in {"pmo", "array"} /\ tr[j].act = 0}}

\* C13: when a statement raises a runtime error interpret returns that error
\* and stops: no later statement is executed, and the printed lines and the
\* bindings made before the failing statement are kept.
C13_ErrorStopsRunKeepsEffects ==
    [][/\ error' # error
          => /\ status = "running"
             /\ status' = "err"
             /\ stack' = <<>>
             /\ output' = output
             /\ Names(environment) \subseteq Names(environment')
             /\ \A n \in Names(environment) \ Touched(trace') :
                   get(environment', n) = get(environment, n)
       /\ status' = "err" => error' # ""
       /\ status = "err" => UNCHANGED vars
       /\ (statements' = ProgErrorMiddle /\ status' = "err")
          => /\ error' = UndefinedVariable("nope")
             /\ output' = <<"1">>
             /\ environment' = define(Environment_new, "a", Whole(2))
       /\ (statements' = ProgErrorInLoop /\ status' \in {"err", "ok"})
          => /\ status' = "err"
             /\ output' = <<"1">>
             /\ environment' = define(Environment_new, "a", Whole(1))]_vars

C13_Witness ==
    /\ statements = ProgErrorMiddle
    /\ status = "err"
    /\ error = UndefinedVariable("nope")
    /\ output = <<"1">>
    /\ get(environment, "a") = Some(Whole(2))

\* the integer part of the number of q halves, the fraction truncated toward
\* zero: the integer t of the sign of q with |t| <= |q/2| < |t| + 1
TruncTowardZero(q) ==
    CHOOSE t \in (-Abs(q))..Abs(q) :
        /\ 2 * Abs(t) <= Abs(q)
        /\ Abs(q) < 2 * Abs(t) + 2
        /\ t * q >= 0

\* C14: a counted loop evaluates its count once, on entry, to a number n and,
\* when no break or error occurs, runs its body exactly trunc(n) times, and
\* zero times when n < 1; what the body does to the variables of the count
\* does not change the number of iterations.
C14_CountedLoopRunsTruncTimes ==
    [][/\ (/\ Executing("Loop")
           /\ Current(Top).condition.some
           /\ status' = "running")
          => LET count_value == Evaluate(Current(Top).condition.val)
             IN  /\ Len(stack') = Len(stack) + 1
                 /\ stack'[Len(stack')].counted
                 /\ stack'[Len(stack')].i = 0
                 /\ stack'[Len(stack')].iterations
                       = TruncTowardZero(count_value.val.q)
       \* the frames of the loops that stay active keep their count
       /\ \A k \in 1..Min(Len(stack), Len(stack')) :
             (IsLoop(stack[k]) /\ IsLoop(stack'[k]))
                => /\ stack'[k].iterations = stack[k].iterations
                   /\ stack'[k].i \in {stack[k].i, stack[k].i + 1}
       \* the body is entered only while fewer than trunc(n) iterations ran
       /\ (At("loop", "iter") /\ Top.counted /\ Len(stack') = Len(stack))
          => /\ Top.i < Top.iterations
             /\ stack'[Len(stack')].pc \in {"exec", "iterend"}
       \* the iteration that ends is counted
       /\ (At("loop", "iterend") /\ Top.counted /\ Len(stack') = Len(stack))
          => stack'[Len(stack')].i = Top.i + 1
       \* the loop is left, with no break, after exactly that many iterations
       /\ (At("loop", "iter") /\ Top.counted /\ ~Top.broke
              /\ Len(stack') < Len(stack))
          => /\ Top.i = IF Top.iterations < 1 THEN 0 ELSE Top.iterations
       /\ (statements' = ProgCountFraction /\ status' = "ok")
          => output' = <<"1", "1">>
       /\ (statements' = ProgCountBelowOne /\ status' = "ok") => output' = <<"2">>
       /\ (statements' = ProgCountNegative /\ status' = "ok") => output' = <<"2">>
       /\ (statements' = ProgCountChanged /\ status' = "ok")
          => output' = <<"3", "4">>]_vars

C14_Witness ==
    /\ statements = ProgCountFraction
    /\ At("loop", "iter")
    /\ Top.iterations = 2
    /\ Top.i = 2
    /\ ~Top.broke
    /\ output = <<"1", "1">>

(***************************************************************************)
(* The operators of Expr::Binary applied to two values                      *)
(***************************************************************************)
MaxOpNumber == 2
OpValues ==
    {Number(q) : q \in (-MaxOpNumber)..MaxOpNumber}
        \cup {String(""), String("a"), String("1")}
        \cup {Boolean(TRUE), Boolean(FALSE), Nil}
        \cup {ArrayValue(<<>>), ArrayValue(<<Whole(1), String("a")>>)}
        \cup {FunctionValue("f", <<"a">>, Variable("a"))}

BinaryOperators ==
    {"Plus", "Minus", "Star", "Slash", "Modulo", "Greater", "GreaterEqual",
     "Less", "LessEqual", "Equal", "NotEqual"}

\* the two operand values, evaluated
InitOp ==
    /\ statements = <<>>
    /\ stack = <<>>
    /\ environment = Environment_new
    /\ in_loop = FALSE
    /\ should_break = FALSE
    /\ output = <<>>
    /\ stdin = <<>>
    /\ status = "idle"
    /\ error = ""
    /\ trace = <<>>
    /\ lastCall \in {[op |-> "operands", left |-> l, right |-> r] :
                        l \in OpValues, r \in OpValues}

\* the match on operator.token_type with left_val and right_val
Apply(operator) ==
    /\ lastCall.op = "operands"
    /\ lastCall' = [op |-> "binary", operator |-> operator,
                    left |-> lastCall.left, right |-> lastCall.right,
                    result |-> binary_operation(operator, lastCall.left,
                                                lastCall.right)]
    /\ UNCHANGED <<statements, stack, environment, in_loop, should_break, output,
                   stdin, status, error, trace>>

NextOp == \E operator \in BinaryOperators : Apply(operator)

OpSpec == InitOp /\ [][NextOp]_vars

Applied(operators) == lastCall.op = "binary" /\ lastCall.operator \in operators

\* C15: `+` on two Numbers is their sum, on two Strings their concatenation;
\* when exactly one operand is a String the other is replaced by its display
\* form and the two are concatenated in operand order; every other
\* combination is a runtime error.
C15_Plus ==
    Applied({"Plus"}) =>
        LET l == lastCall.left
            r == lastCall.right
            res == lastCall.result
        IN  /\ (IsNumber(l) /\ IsNumber(r))
               => res.ok /\ res.val = Number(l.q + r.q)
            /\ (IsString(l) /\ IsString(r))
               => res.ok /\ res.val = String(l.s \o r.s)
            /\ (IsString(l) /\ ~IsString(r))
               => res.ok /\ res.val = String(l.s \o to_string(r))
            /\ (~IsString(l) /\ IsString(r))
               => res.ok /\ res.val = String(to_string(l) \o r.s)
            /\ (~IsString(l) /\ ~IsString(r) /\ ~(IsNumber(l) /\ IsNumber(r)))
               => ~res.ok /\ res.err = "Operands must be numbers or strings."
            /\ (l = String("a") /\ r = Whole(1)) => res.val = String("a1")
            /\ (l = Whole(1) /\ r = String("a")) => res.val = String("1a")
            /\ (l = Whole(1) /\ r = Whole(1)) => to_string(res.val) = "2"
            /\ (l = Nil /\ r = String("a")) => res.val = String("nila")
            /\ (l = String("1") /\ r = Boolean(TRUE)) => res.val = String("1true")

C15_Witness ==
    /\ Applied({"Plus"})
    /\ lastCall.left = Whole(1)
    /\ lastCall.right = String("a")
    /\ lastCall.result = OkVal(String("1a"))

NumbersOnly ==
    {"Minus", "Star", "Slash", "Modulo", "Greater", "GreaterEqual", "Less",
     "LessEqual"}

\* C16: `-`, `*`, `/`, `%`, `>`, `>=`, `<`, `<=` yield a value only when both
\* operands are Numbers and fail with the operands-must-be-numbers error
\* otherwise; `/` and `%` on two Numbers fail, with the division or modulo by
\* zero error, exactly when the right operand is zero.
C16_NumbersOnly ==
    Applied(NumbersOnly) =>
        LET l == lastCall.left
            r == lastCall.right
            res == lastCall.result
            by_zero == lastCall.operator \in {"Slash", "Modulo"} /\ r.q = 0
        IN  /\ res.ok => IsNumber(l) /\ IsNumber(r)
            /\ ~(IsNumber(l) /\ IsNumber(r))
               => ~res.ok /\ res.err = "Operands must be numbers."
            /\ (IsNumber(l) /\ IsNumber(r))
               => /\ res.ok <=> ~by_zero
                  /\ (by_zero /\ lastCall.operator = "Slash")
                     => res.err = "Division by zero."
                  /\ (by_zero /\ lastCall.operator = "Modulo")
                     => res.err = "Modulo by zero."
                  /\ res.ok
                     => res.val.kind =
                           IF lastCall.operator \in {"Minus", "Star", "Slash", "Modulo"}
                           THEN "Number" ELSE "Boolean"

C16_Witness ==
    /\ Applied({"Slash"})
    /\ lastCall.left = Whole(1)
    /\ lastCall.right = Number(0)
    /\ lastCall.result = ErrVal("Division by zero.")

\* C17: `==` and `!=` never raise an error; on operands of different kinds
\* `==` is false and `!=` is true; and `a != b` is the negation of `a == b`.
C17_EqualityNeverFails ==
    Applied({"Equal", "NotEqual"}) =>
        LET l == lastCall.left
            r == lastCall.right
            res == lastCall.result
            eq == binary_operation("Equal", l, r)
            ne == binary_operation("NotEqual", l, r)
        IN  /\ res.ok
            /\ res.val.kind = "Boolean"
            /\ l.kind # r.kind
               => res.val.b = (lastCall.operator = "NotEqual")
            /\ eq.ok /\ ne.ok /\ ne.val.b = ~eq.val.b
            /\ (l = Whole(1) /\ r = String("1"))
               => res.val.b = (lastCall.operator = "NotEqual")

C17_Witness ==
    /\ Applied({"Equal"})
    /\ lastCall.left = Whole(1)
    /\ lastCall.right = String("1")
    /\ lastCall.result = OkVal(Boolean(FALSE))

\* Nil is false, a Boolean is its own value, every Number, String, Array and
\* Function is true
Truthy(value) ==
    /\ value.kind # "Nil"
    /\ value.kind = "Boolean" => value.b
    /\ value.kind \in {"Boolean", "Number", "String", "Array", "Function"}

\* C18: an If statement evaluates its condition once and then executes
\* exactly the then-branch when the value is truthy, and exactly the
\* else-branch, or nothing when there is none, otherwise; Nil is false, a
\* Boolean is its own value, every other kind of value is true.
C18_IfTakesBranchByTruthiness ==
    [][/\ (Executing("If") /\ status' = "running")
          => LET stmt == Current(Top)
                 condition_value == Evaluate(stmt.condition)
             IN  /\ trace' = condition_value.st.trace
                 /\ environment' = condition_value.st.env
                 /\ stdin' = condition_value.st.stdin
                 /\ output' = output
                 /\ Truthy(condition_value.val)
                    => stack' = Append(stack, IfFrame(stmt.then_branch))
                 /\ (~Truthy(condition_value.val) /\ stmt.else_branch.some)
                    => stack' = Append(stack, IfFrame(stmt.else_branch.val))
                 /\ (~Truthy(condition_value.val) /\ ~stmt.else_branch.some)
                    => /\ Len(stack') = Len(stack)
                       /\ stack'[Len(stack')].pc = "after"
       \* the branch is executed once, and the If statement is over
       /\ (At("if", "exec") /\ status' = "running")
          => \/ stack'[Len(stack)].pc = "after"
             \/ Len(stack') = Len(stack) + 1
       /\ At("if", "after")
          => /\ stack' = Returned(SubSeq(stack, 1, Len(stack) - 1))
             /\ UNCHANGED <<environment, output, stdin>>
       /\ (statements' = ProgTruthy /\ status' = "ok")
          => output' = <<"0", "1", "1", "1", "1", "1", "0">>
       \* one line of input is read for the condition, the next by `yap yeet`
       /\ (statements' = ProgIfInput /\ status' = "ok")
          => output' \in {<<"1", "">>, <<"1", "hi">>, <<"1", "2.5">>}
       /\ (statements' = ProgIfAssign /\ status' = "ok")
          => output' = <<"1", "1">>]_vars

C18_Witness ==
    /\ statements = ProgTruthy
    /\ status = "ok"
    /\ output = <<"0", "1", "1", "1", "1", "1", "0">>
    /\ get(environment, "a") = Some(ArrayValue(<<>>))

\* the statement on top is `gyat name { ... };` or `yap gyat name { ... };`
ExecutingArrayLiteral ==
    /\ \/ Executing("Expression")
       \/ Executing("Print")
    /\ Current(Top).expr.e = "Array"

\* an array literal that evaluated: the Array of the element values is bound
\* to the name in the environment the elements left, nothing else changes
ArrayLiteralDefines(event) ==
    /\ event.val.kind = "Array"
    /\ get(event.after, event.name) = Some(event.val)
    /\ Names(event.after) = Names(event.mid) \cup {event.name}
    /\ \A n \in Names(event.mid) \ {event.name} :
          get(event.after, n) = get(event.mid, n)

\* the values of the elements, evaluated one after the other from the first
ElementsInOrder(elements, st) ==
    LET n == Len(elements)
        step[i \in 0..n] ==
            IF i = 0 THEN [ok |-> TRUE, vals |-> <<>>, err |-> "", st |-> st]
            ELSE IF ~step[i - 1].ok THEN step[i - 1]
            ELSE LET r == evaluate(elements[i], step[i - 1].st, TopContext)
                 IN  [ok |-> r.ok, vals |-> Append(step[i - 1].vals, r.val),
                      err |-> r.err, st |-> r.st]
    IN  step[n]

ArrayLiteralExamples ==
    /\ (statements' = ProgArrayOrder /\ status' = "ok")
       => output' = <<"[1, 2, 2]", "[1, 2, 2]", "2">>
    /\ (statements' = ProgArrayOverwrite /\ status' = "ok")
       => output' = <<"[5, 6]">>
    /\ (statements' = ProgArrayFails /\ status' \in {"ok", "err"})
       => /\ status' = "err"
          /\ error' = UndefinedVariable("nope")
          /\ environment' = define(Environment_new, "a", Number(0))

\* C19: an array literal evaluates its elements in order, yields the Array of
\* their values and defines its name, bound to that Array, in the environment
\* it is evaluated in; if an element fails the error is propagated and the
\* name is bound to what it was before the literal was evaluated, or unbound.
C19_ArrayLiteralDefinesName ==
    [][/\ \A k \in {j \in 1..Len(trace') : trace'[j].ev = "array"} :
             ArrayLiteralDefines(trace'[k])
       /\ ExecutingArrayLiteral
          => LET expr == Current(Top).expr
                 elems == ElementsInOrder(expr.elements,
                                          EvalState(environment, stdin, 0, <<>>))
             IN  IF elems.ok
                 THEN /\ status' = "running"
                      /\ environment' = define(elems.st.env, expr.name,
                                               ArrayValue(elems.vals))
                 ELSE /\ status' = "err"
                      /\ get(environment', expr.name) = get(environment, expr.name)
       /\ ArrayLiteralExamples]_vars

\* C19, amended: an array literal evaluates its elements in order, yields
\* the Array of their values and defines its name, bound to that Array, in
\* the environment it is evaluated in; if an element fails the error is
\* propagated and the literal itself does not define or change the name:
\* the environment is what the elements evaluated up to the failure left,
\* so the name keeps a binding that an earlier element gave it.
C19_ArrayLiteralDefinesNameAfterElements ==
    [][/\ \A k \in {j \in 1..Len(trace') : trace'[j].ev = "array"} :
             ArrayLiteralDefines(trace'[k])
       /\ ExecutingArrayLiteral
          => LET expr == Current(Top).expr
                 elems == ElementsInOrder(expr.elements,
                                          EvalState(environment, stdin, 0, <<>>))
             IN  IF elems.ok
                 THEN /\ status' = "running"
                      /\ environment' = define(elems.st.env, expr.name,
                                               ArrayValue(elems.vals))
                 ELSE /\ status' = "err"
                      /\ environment' = elems.st.env
       /\ ArrayLiteralExamples
       /\ (statements' = ProgArrayFailsNested /\ status' \in {"ok", "err"})
          => /\ status' = "err"
             /\ environment' = define(Environment_new, "a", ArrayValue(<<Whole(1)>>))]_vars

C19_Witness ==
    /\ statements = ProgArrayOrder
    /\ status = "ok"
    /\ output = <<"[1, 2, 2]", "[1, 2, 2]", "2">>
    /\ get(environment, "a") = Some(ArrayValue(<<Whole(1), Whole(2), Whole(2)>>))

(***************************************************************************)
(* Interpreter::evaluate on one binary expression or one call, in the      *)
(* environment after `ts x pmo 1; hawk f(a) tuah a; hawk g(a, b) tuah a + b;` *)
(***************************************************************************)
AssignX5 == Grouping(Binary(Variable("x"), "Pmo", Num(5)))

EvalEnvironment ==
    define(define(define(Environment_new, "x", Whole(1)),
                  "f", FunctionValue("f", <<"a">>, Variable("a"))),
           "g", FunctionValue("g", <<"a", "b">>,
                              Binary(Variable("a"), "Plus", Variable("b"))))

\* operands with and without side effects: a read, an assignment, an array
\* literal, an input, an undefined name, literals
EvalOperands ==
    {Variable("x"), AssignX5, Array("x", <<Num(3)>>), Yeet, Variable("nope"),
     Str("s"), Num(2)}
EvalOperators == {"Plus", "Minus", "Slash", "Equal"}
EvalCallees == {Variable("x"), Variable("f"), Variable("g"), Variable("nope")}
EvalArguments ==
    {<<a>> : a \in EvalOperands} \cup {<<a, b>> : a \in EvalOperands, b \in EvalOperands}

InitEval ==
    /\ statements = <<>>
    /\ stack = <<>>
    /\ environment = EvalEnvironment
    /\ in_loop = FALSE
    /\ should_break = FALSE
    /\ output = <<>>
    /\ stdin \in Inputs
    /\ status = "idle"
    /\ error = ""
    /\ trace = <<>>
    /\ lastCall = [op |-> "none"]

EvalExpr(expr) ==
    /\ lastCall.op = "none"
    /\ LET r == Evaluate(expr)
       IN  /\ environment' = r.st.env
           /\ stdin' = r.st.stdin
           /\ trace' = r.st.trace
           /\ lastCall' = [op |-> "evaluate", expr |-> expr,
                           before |-> environment, input |-> stdin,
                           ok |-> r.ok, val |-> r.val, err |-> r.err]
    /\ UNCHANGED <<statements, stack, in_loop, should_break, output, status, error>>

EvalBinary(left, operator, right) == EvalExpr(Binary(left, operator, right))

EvalCall(callee, arguments) == EvalExpr(Call(callee, arguments))

NextEval ==
    \/ \E left \in EvalOperands, operator \in EvalOperators, right \in EvalOperands :
          EvalBinary(left, operator, right)
    \/ \E callee \in EvalCallees, arguments \in EvalArguments :
          EvalCall(callee, arguments)

EvalSpec == InitEval /\ [][NextEval]_vars

Outcome(ok, val, err, st) ==
    [ok |-> ok, val |-> val, err |-> err, env |-> st.env, stdin |-> st.stdin]

\* the left operand, then the right operand in the state the left one
\* left, then the operator on the two values
LeftThenRight(expr, st) ==
    LET l == evaluate(expr.left, st, TopContext)
    IN  IF ~l.ok THEN Outcome(FALSE, Nil, l.err, l.st)
        ELSE LET r == evaluate(expr.right, l.st, TopContext)
             IN  IF ~r.ok THEN Outcome(FALSE, Nil, r.err, r.st)
                 ELSE LET res == binary_operation(expr.operator, l.val, r.val)
                      IN  Outcome(res.ok, res.val, res.err, r.st)

\* the callee, then the arguments from the first to the last, then the call
CalleeThenArguments(expr, st) ==
    LET c == evaluate(expr.callee, st, TopContext)
    IN  IF ~c.ok THEN Outcome(FALSE, Nil, c.err, c.st)
        ELSE LET args == ElementsInOrder(expr.arguments, c.st)
             IN  IF ~args.ok
                 THEN Outcome(FALSE, Nil, args.err, args.st)
                 ELSE IF c.val.kind # "Function"
                 THEN Outcome(FALSE, Nil, "Can only call functions.", args.st)
                 ELSE IF Len(c.val.params) # Len(args.vals)
                 THEN Outcome(FALSE, Nil,
                              "Expected " \o ToString(Len(c.val.params))
                                 \o " arguments but got "
                                 \o ToString(Len(args.vals)) \o ".", args.st)
                 ELSE LET r == call_function(c.val, args.vals, args.st, TopContext)
                      IN  Outcome(r.ok, r.val, r.err, r.st)

Evaluated(expr) == lastCall.op = "evaluate" /\ lastCall.expr = expr
XIs(n) == get(environment, "x") = Some(Whole(n))

EvaluationOrderExamples ==
    /\ Evaluated(Binary(AssignX5, "Plus", Variable("x")))
       => lastCall.val = Whole(10) /\ XIs(5)
    /\ Evaluated(Binary(Variable("x"), "Plus", AssignX5))
       => lastCall.val = Whole(6) /\ XIs(5)
    /\ Evaluated(Binary(Variable("nope"), "Plus", AssignX5))
       => lastCall.err = UndefinedVariable("nope") /\ XIs(1)
    /\ Evaluated(Binary(AssignX5, "Plus", Variable("nope")))
       => lastCall.err = UndefinedVariable("nope") /\ XIs(5)
    /\ Evaluated(Binary(Str("s"), "Minus", AssignX5))
       => lastCall.err = "Operands must be numbers." /\ XIs(5)
    /\ Evaluated(Binary(Num(2), "Slash", Yeet))
       => lastCall.input = <<>> \/ Len(stdin) = Len(lastCall.input) - 1
    /\ (Evaluated(Binary(Yeet, "Plus", Yeet)) /\ lastCall.input = <<"hi", "2.5">>)
       => lastCall.val = String("hi2.5") /\ stdin = <<>>
    /\ Evaluated(Call(Variable("x"), <<AssignX5, Variable("nope")>>))
       => lastCall.err = UndefinedVariable("nope") /\ XIs(5)
    /\ Evaluated(Call(Variable("x"), <<AssignX5, Num(2)>>))
       => lastCall.err = "Can only call functions." /\ XIs(5)
    /\ Evaluated(Call(Variable("nope"), <<AssignX5, Num(2)>>))
       => lastCall.err = UndefinedVariable("nope") /\ XIs(1)
    /\ Evaluated(Call(Variable("f"), <<AssignX5, Variable("nope")>>))
       => lastCall.err = UndefinedVariable("nope") /\ XIs(5)
    /\ Evaluated(Call(Variable("f"), <<Num(2), AssignX5>>))
       => lastCall.err = "Expected 1 arguments but got 2." /\ XIs(5)
    /\ Evaluated(Call(Variable("g"), <<AssignX5, Variable("x")>>))
       => lastCall.val = Whole(10)
    /\ Evaluated(Call(Variable("g"), <<Variable("x"), AssignX5>>))
       => lastCall.val = Whole(6)
    /\ (Evaluated(Call(Variable("g"), <<Yeet, Yeet>>))
           /\ lastCall.input = <<"hi", "2.5">>)
       => lastCall.val = String("hi2.5")

\* C20: evaluation is strictly left to right: a binary expression evaluates
\* its left operand, then its right operand, then applies the operator, with
\* no short-circuit; a call evaluates the callee, then the arguments in
\* listed order, and only then checks the callee kind and the argument
\* count. The order shows in the effects of assignments, array literals
\* and inputs.
C20_LeftToRight ==
    /\ lastCall.op = "evaluate"
       => LET st == EvalState(lastCall.before, lastCall.input, 0, <<>>)
              expected == IF lastCall.expr.e = "Binary"
                          THEN LeftThenRight(lastCall.expr, st)
                          ELSE CalleeThenArguments(lastCall.expr, st)
          IN  /\ lastCall.ok = expected.ok
              /\ lastCall.ok => lastCall.val = expected.val
              /\ lastCall.err = expected.err
              /\ environment = expected.env
              /\ stdin = expected.stdin
    /\ EvaluationOrderExamples

C20_Witness ==
    /\ Evaluated(Binary(AssignX5, "Plus", Variable("x")))
    /\ lastCall.before = EvalEnvironment
    /\ lastCall.val = Whole(10)
    /\ XIs(5)

(***************************************************************************)
(* Interpreter::interpret called again on the same Interpreter: the        *)
(* environment and the two flags are the fields the earlier call left       *)
(***************************************************************************)
MaxInterpretCalls == 3
ReplPrograms ==
    {ProgLoopError, ProgLoopNotNumber, ProgBreakTop, ProgIfBreak, ProgAdd,
     ProgReassign}

InterpretCalls == IF lastCall.op = "interpret" THEN lastCall.n ELSE 1

InterpretAgain(program) ==
    /\ status \in {"ok", "err"}
    /\ InterpretCalls < MaxInterpretCalls
    /\ statements' = program
    /\ status' = "running"
    /\ stack' = <<InterpretFrame(1)>>
    /\ error' = ""
    /\ trace' = <<>>
    /\ lastCall' = [op |-> "interpret", n |-> InterpretCalls + 1,
                    in_loop |-> in_loop, should_break |-> should_break]
    /\ UNCHANGED <<environment, in_loop, should_break, output, stdin>>

NextRepl ==
    \/ \E program \in ReplPrograms : Interpret(program, <<>>)
    \/ \E program \in ReplPrograms : InterpretAgain(program)
    \/ InterpretCheck
    \/ ExecExpression
    \/ ExecPrint
    \/ ExecVar
    \/ ExecFunction
    \/ ExecIf
    \/ IfReturn
    \/ ExecBreak
    \/ ExecLoop
    \/ LoopIter
    \/ LoopBodyCheck
    \/ LoopIterCheck

ReplSpec == Init /\ [][NextRepl]_vars

\* C26: whenever interpret returns, with success or with a runtime error,
\* in_loop and should_break are both false.
C26_FlagsClearedOnReturn ==
    status \in {"ok", "err"} => ~in_loop /\ ~should_break

\* C26: a later interpret call starts from the control state of a new
\* Interpreter, so a statement that is not a `sybau` is never reported as a
\* break outside of a loop.
C26_NoSpuriousBreakError ==
    [][(status = "running" /\ status' = "err" /\ error' = BreakOutsideLoop)
          => Executing("Break")]_vars

\* C27: evaluating a string literal, whatever its text, reads no line of
\* input and yields the String of the literal's text; here for the programs
\* that print string literals and hold no yeet expression.
C27_StringLiteralReadsNoInput ==
    [][(/\ statements \in {ProgPlainStrings, ProgMarkerString}
        /\ Executing("Print")
        /\ Current(Top).expr.e = "Literal"
        /\ Current(Top).expr.lit.kind = "String")
          => /\ stdin' = stdin
             /\ \A k \in 1..Len(trace') : trace'[k].ev # "handle_input"
             /\ output' = Println(output, Current(Top).expr.lit.s)]_vars

\* C28: every function call returns, with a value or with a runtime error,
\* after finitely many steps and with bounded call nesting: no evaluation
\* nests its calls up to the depth MaxCallDepth, at which the model gives
\* up a call that the code would go on nesting.
C28_CallsReturn ==
    /\ ~(status = "err" /\ error = "<stack overflow>")
    /\ \A k \in Events("body") :
          \E j \in Events("return") : j > k /\ trace[j].act = trace[k].act

\* C30: `==` is reflexive on stored values: for x bound to a value of any
\* kind `x == x` is true and `x != x` is false, and two arrays with the
\* same elements in the same order compare equal.
C30_EqualReflexive ==
    \A k \in Events("apply") :
        (/\ trace[k].operator \in {"Equal", "NotEqual"}
         /\ trace[k].left = trace[k].right)
            => binary_operation(trace[k].operator, trace[k].left, trace[k].right)
                  = OkVal(Boolean(trace[k].operator = "Equal"))

(***************************************************************************)
(* src/src/lexer.rs.  The source text is a sequence of characters, each a   *)
(* one-character string; a Lexer is the record of its fields (the keywords  *)
(* table is the same in every Lexer and is the operator keywords_get).      *)
(* current and start count characters as in the source, so the character    *)
(* at index i of the Vec<char> is source[i + 1] here.                       *)
(***************************************************************************)
Digits == {"0", "1", "2", "3", "4", "5", "6", "7", "8", "9"}
Letters ==
    {"a", "b", "c", "d", "e", "f", "g", "h", "i", "j", "k", "l", "m", "n",
     "o", "p", "q", "r", "s", "t", "u", "v", "w", "x", "y", "z",
     "A", "B", "C", "D", "E", "F", "G", "H", "I", "J", "K", "L", "M", "N",
     "O", "P", "Q", "R", "S", "T", "U", "V", "W", "X", "Y", "Z"}
\* the character '\0' that peek and peek_next return past the end
NUL == "NUL"

\* Iterator<char>::collect::<String>
RECURSIVE collect(_)
collect(chars) ==
    IF Len(chars) = 0 THEN "" ELSE Head(chars) \o collect(Tail(chars))

Token(token_type, lexeme, literal, line) ==
    [token_type |-> token_type, lexeme |-> lexeme, literal |-> literal,
     line |-> line]

\* keywords.get(&text).cloned()
keywords_get(text) ==
    CASE text = "yap" -> Some("Yap")
      [] text = "ts" -> Some("Ts")
      [] text = "pmo" -> Some("Pmo")
      [] text = "gyat" -> Some("Gyat")
      [] text = "gyatt" -> Some("Gyat")
      [] text = "hawk" -> Some("Hawk")
      [] text = "tuah" -> Some("Tuah")
      [] text = "goon" -> Some("Goon")
      [] text = "edge" -> Some("Edge")
      [] text = "yeet" -> Some("Yeet")
      [] text = "sybau" -> Some("Sybau")
      [] text = "yo" -> Some("Yo")
      [] text = "gurt" -> Some("Gurt")
      [] OTHER -> None

Lexer_new(source) ==
    [source |-> source, tokens |-> <<>>, start |-> 0, current |-> 0,
     line |-> 1]

is_alpha(c) == c \in Letters \/ c = "_"
is_digit(c) == c \in Digits
is_alphanumeric(c) == is_alpha(c) \/ is_digit(c)

Lexer_is_at_end(lx) == lx.current >= Len(lx.source)

Lexer_peek(lx) ==
    IF Lexer_is_at_end(lx) THEN NUL ELSE lx.source[lx.current + 1]

peek_next(lx) ==
    IF lx.current + 1 >= Len(lx.source) THEN NUL ELSE lx.source[lx.current + 2]

\* advance: the character it returns is Lexer_peek of the Lexer before
Lexer_advance(lx) == [lx EXCEPT !.current = @ + 1]

match_char(lx, expected) ==
    IF Lexer_is_at_end(lx) \/ lx.source[lx.current + 1] # expected
    THEN [matched |-> FALSE, lx |-> lx]
    ELSE [matched |-> TRUE, lx |-> Lexer_advance(lx)]

\* self.source[self.start..self.current]
Lexeme(lx) == SubSeq(lx.source, lx.start + 1, lx.current)

\* the mutant of add_token_literal: every token is stamped with line 1
add_token_literal_line_one(lx, token_type, literal) ==
    [lx EXCEPT !.tokens =
        Append(@, Token(token_type, collect(Lexeme(lx)), literal, 1))]

add_token_literal(lx, token_type, literal) ==
    [lx EXCEPT !.tokens =
        Append(@, Token(token_type, collect(Lexeme(lx)), literal, lx.line))]

add_token(lx, token_type) == add_token_literal(lx, token_type, None)

\* while is(self.peek()) { self.advance(); } for a class of characters
RECURSIVE advance_while(_, _)
advance_while(lx, class) ==
    IF Lexer_peek(lx) \in class
    THEN advance_while(Lexer_advance(lx), class)
    ELSE lx

\* while self.peek() != '\n' && !self.is_at_end() { self.advance(); }
RECURSIVE skip_comment(_)
skip_comment(lx) ==
    IF Lexer_peek(lx) # "\n" /\ ~Lexer_is_at_end(lx)
    THEN skip_comment(Lexer_advance(lx))
    ELSE lx

identifier(lx) ==
    LET lx1 == advance_while(lx, Letters \cup {"_"} \cup Digits)
        token_type == keywords_get(collect(Lexeme(lx1)))
    IN  add_token(lx1, IF token_type.some THEN token_type.val ELSE "Identifier")

DigitValue(c) == CHOOSE d \in 0..9 : ToString(d) = c

RECURSIVE DigitsValue(_)
DigitsValue(chars) ==
    IF Len(chars) = 0 THEN 0
    ELSE 10 * DigitsValue(SubSeq(chars, 1, Len(chars) - 1))
         + DigitValue(chars[Len(chars)])

\* str::parse::<f64> on digits with an optional fraction, in halves: exact
\* for a fraction of .0 or .5, otherwise rounded down to the next half
parse_number(chars) ==
    LET dots == {i \in 1..Len(chars) : chars[i] = "."}
        dot == IF dots = {} THEN Len(chars) + 1 ELSE CHOOSE i \in dots : TRUE
        whole == DigitsValue(SubSeq(chars, 1, dot - 1))
        half == dot < Len(chars) /\ DigitValue(chars[dot + 1]) >= 5
    IN  2 * whole + (IF half THEN 1 ELSE 0)

number(lx) ==
    LET lx1 == advance_while(lx, Digits)
        lx2 == IF Lexer_peek(lx1) = "." /\ is_digit(peek_next(lx1))
               THEN advance_while(Lexer_advance(lx1), Digits)
               ELSE lx1
    IN  add_token_literal(lx2, "Number", Some(Number(parse_number(Lexeme(lx2)))))

LexOk(lx) == [ok |-> TRUE, err |-> "", lx |-> lx]
LexErr(msg, lx) == [ok |-> FALSE, err |-> msg, lx |-> lx]

RECURSIVE process_escape_sequences(_, _)
process_escape_sequences(input, line) ==
    IF Len(input) = 0 THEN [ok |-> TRUE, err |-> "", chars |-> <<>>]
    ELSE LET c == Head(input)
         IN  IF c = "\\" /\ Len(input) >= 2
             THEN LET next == input[2]
                      rest == process_escape_sequences(SubSeq(input, 3, Len(input)), line)
                      resolved == CASE next = "n" -> "\n"
                                    [] next = "t" -> "\t"
                                    [] next = "r" -> "\r"
                                    [] next = "\\" -> "\\"
                                    [] next = "\"" -> "\""
                                    [] OTHER -> NUL
                  IN  IF resolved = NUL
                      THEN [ok |-> FALSE, chars |-> <<>>,
                            err |-> "Invalid escape sequence \\" \o next
                                    \o " at line " \o ToString(line)]
                      ELSE IF rest.ok
                           THEN [rest EXCEPT !.chars = <<resolved>> \o @]
                           ELSE rest
             ELSE LET rest == process_escape_sequences(Tail(input), line)
                  IN  IF rest.ok THEN [rest EXCEPT !.chars = <<c>> \o @] ELSE rest

\* the loop of string: up to the next '"' or the end, counting the lines
RECURSIVE string_body(_)
string_body(lx) ==
    IF Lexer_peek(lx) # "\"" /\ ~Lexer_is_at_end(lx)
    THEN string_body(Lexer_advance(
             IF Lexer_peek(lx) = "\n" THEN [lx EXCEPT !.line = @ + 1] ELSE lx))
    ELSE lx

string(lx) ==
    LET lx1 == string_body(lx)
        lx2 == Lexer_advance(lx1)
        value == process_escape_sequences(
                     SubSeq(lx2.source, lx2.start + 2, lx2.current - 1), lx2.line)
    IN  IF Lexer_is_at_end(lx1)
        THEN LexErr("Unterminated string at line " \o ToString(lx1.line), lx1)
        ELSE IF value.ok
             THEN LexOk(add_token_literal(lx2, "String",
                                          Some(String(collect(value.chars)))))
             ELSE LexErr(value.err, lx2)

Unexpected(c, lx) ==
    LexErr("Unexpected character '" \o c \o "' at line " \o ToString(lx.line), lx)

scan_token(lx0) ==
    LET c == Lexer_peek(lx0)
        lx == Lexer_advance(lx0)
        eq == match_char(lx, "=")
    IN  CASE c = "(" -> LexOk(add_token(lx, "LeftParen"))
          [] c = ")" -> LexOk(add_token(lx, "RightParen"))
          [] c = "{" -> LexOk(add_token(lx, "LeftBrace"))
          [] c = "}" -> LexOk(add_token(lx, "RightBrace"))
          [] c = "," -> LexOk(add_token(lx, "Comma"))
          [] c = ";" -> LexOk(add_token(lx, "Semicolon"))
          [] c = "+" -> LexOk(add_token(lx, "Plus"))
          [] c = "-" -> LexOk(add_token(lx, "Minus"))
          [] c = "*" -> LexOk(add_token(lx, "Star"))
          [] c = "/" ->
                LET slash == match_char(lx, "/")
                IN  IF slash.matched
                    THEN LexOk(skip_comment(slash.lx))
                    ELSE LexOk(add_token(lx, "Slash"))
          [] c = "%" -> LexOk(add_token(lx, "Modulo"))
          [] c = "=" ->
                IF eq.matched THEN LexOk(add_token(eq.lx, "Equal"))
                ELSE Unexpected(c, lx)
          [] c = "!" ->
                IF eq.matched THEN LexOk(add_token(eq.lx, "NotEqual"))
                ELSE Unexpected(c, lx)
          [] c = ">" ->
                IF eq.matched THEN LexOk(add_token(eq.lx, "GreaterEqual"))
                ELSE LexOk(add_token(lx, "Greater"))
          [] c = "<" ->
                IF eq.matched THEN LexOk(add_token(eq.lx, "LessEqual"))
                ELSE LexOk(add_token(lx, "Less"))
          [] c \in {" ", "\r", "\t"} -> LexOk(lx)
          [] c = "\n" -> LexOk([lx EXCEPT !.line = @ + 1])
          [] c = "\"" -> string(lx)
          [] OTHER ->
                IF is_digit(c) THEN LexOk(number(lx))
                ELSE IF is_alpha(c) THEN LexOk(identifier(lx))
                ELSE Unexpected(c, lx)

RECURSIVE scan_tokens(_)
scan_tokens(lx) ==
    IF ~Lexer_is_at_end(lx)
    THEN LET r == scan_token([lx EXCEPT !.start = lx.current])
         IN  IF r.ok THEN scan_tokens(r.lx)
             ELSE [ok |-> FALSE, tokens |-> <<>>, err |-> r.err, lx |-> r.lx]
    ELSE LET lx1 == [lx EXCEPT !.tokens = Append(@, Token("EOF", "", None, lx.line))]
         IN  [ok |-> TRUE, tokens |-> lx1.tokens, err |-> "", lx |-> lx1]

(***************************************************************************)
(* Source texts, character by character                                     *)
(***************************************************************************)
\* yap 1; / a comment line / yap "a<newline>b"; x -- tokens on lines 1 to 4
SrcLines ==
    <<"y", "a", "p", " ", "1", ";", "\n", "/", "/", " ", "c", "\n", "y",
      "a", "p", " ", "\"", "a", "\n", "b", "\"", ";", " ", "x">>

\* a string literal with the escapes \n, \t, \r and \\
SrcEscapes ==
    <<"\"", "a", "\\", "n", "b", "\\", "t", "c", "\\", "r", "d", "\\",
      "\\", "e", "\"">>

\* a string literal written with \" between its quotes
SrcEscapedQuote ==
    <<"\"", "a", "\\", "\"", "b", "\"">>

\* every keyword, the alias gyatt and an identifier
SrcKeywords ==
    <<"y", "a", "p", " ", "t", "s", " ", "p", "m", "o", " ", "g", "y", "a",
      "t", " ", "g", "y", "a", "t", "t", " ", "h", "a", "w", "k", " ", "t",
      "u", "a", "h", " ", "g", "o", "o", "n", " ", "e", "d", "g", "e", " ",
      "y", "e", "e", "t", " ", "s", "y", "b", "a", "u", " ", "y", "o", " ",
      "g", "u", "r", "t", " ", "y", "a", "p", "x">>

\* every operator and delimiter, and three numbers
SrcOperators ==
    <<"(", ")", "{", "}", ",", ";", "+", "-", "*", "/", "%", "=", "=", "!",
      "=", ">", ">", "=", "<", "<", "=", " ", "1", ".", "5", " ", "1", "2",
      " ", "3">>

(***************************************************************************)
(* src/src/parser.rs.  A Parser is the record of its fields tokens and      *)
(* current, with two fields kept for the properties: panic, set when a      *)
(* token is read at an index outside the Vec (tokens[current] past the end, *)
(* or tokens[current - 1] with current = 0), and declarations, the calls of *)
(* declaration with the cursor before and after each.  The trees are the    *)
(* Expr and Stmt above: a Token kept in a tree is kept as its token_type    *)
(* (the operator of Binary) or as its lexeme (a name); the paren of Call is *)
(* dropped.  An error is the message with the token that format! prints     *)
(* after it.                                                                *)
(***************************************************************************)
Parser_new(tokens) ==
    [tokens |-> tokens, current |-> 0, panic |-> FALSE, declarations |-> <<>>]

\* what an index outside tokens yields in the model; the program panics
OutOfBounds == Token("<index out of bounds>", "", None, 0)

Parser_peek(ps) ==
    IF ps.current < Len(ps.tokens) THEN ps.tokens[ps.current + 1]
    ELSE OutOfBounds

previous(ps) ==
    IF 1 <= ps.current /\ ps.current <= Len(ps.tokens)
    THEN ps.tokens[ps.current]
    ELSE OutOfBounds

\* records that token was read, and the panic when it is outside the Vec
Read(ps, token) == [ps EXCEPT !.panic = @ \/ token = OutOfBounds]

Parser_is_at_end(ps) == Parser_peek(ps).token_type = "EOF"

check(ps, token_type) ==
    IF Parser_is_at_end(ps) THEN FALSE
    ELSE Parser_peek(ps).token_type = token_type

Parser_advance(ps) ==
    LET ps1 == IF ~Parser_is_at_end(ps) THEN [ps EXCEPT !.current = @ + 1]
               ELSE ps
    IN  Read(Read(ps1, Parser_peek(ps)), previous(ps1))

\* the mutant of match_token: reports the match and leaves the cursor
match_token_no_advance(ps, token_type) ==
    [matched |-> check(ps, token_type), ps |-> Read(ps, Parser_peek(ps))]

match_token(ps, token_type) ==
    IF check(ps, token_type)
    THEN [matched |-> TRUE, ps |-> Parser_advance(ps)]
    ELSE [matched |-> FALSE, ps |-> Read(ps, Parser_peek(ps))]

match_tokens(ps, token_types) ==
    IF \E token_type \in token_types : check(ps, token_type)
    THEN [matched |-> TRUE, ps |-> Parser_advance(ps)]
    ELSE [matched |-> FALSE, ps |-> Read(ps, Parser_peek(ps))]

\* Result<T, String>, with the Parser after the call
ParseOk(val, ps) == [ok |-> TRUE, val |-> val, err |-> None, ps |-> ps]
ParseErr(message, ps) ==
    [ok |-> FALSE, val |-> Nil, ps |-> Read(ps, Parser_peek(ps)),
     err |-> Some([message |-> message, got |-> Parser_peek(ps)])]

\* let r = value; and what follows it, Rest(r)
Let(value, Rest(_)) == Rest(value)

\* let r = result?; and what follows it: an Err is returned at once
Try(result, Rest(_)) == IF result.ok THEN Rest(result) ELSE result

consume(ps, token_type, message) ==
    IF check(ps, token_type)
    THEN Let(Parser_advance(ps), LAMBDA ps1 : ParseOk(previous(ps1), ps1))
    ELSE ParseErr(message \o " Got", ps)

RECURSIVE declaration(_)
RECURSIVE statement(_)
RECURSIVE loop_body(_, _)
RECURSIVE expression(_)
RECURSIVE expression_list(_, _)
RECURSIVE assignment(_)
RECURSIVE equality(_)
RECURSIVE comparison(_)
RECURSIVE term(_)
RECURSIVE term_right_assoc(_)
RECURSIVE factor(_)
RECURSIVE unary(_)
RECURSIVE call(_)
RECURSIVE call_loop(_, _)
RECURSIVE primary(_)

\* loop { list.push(self.expression()?); if !self.match_token(Comma) { break; } }
expression_list(ps, list) ==
    Try(expression(ps), LAMBDA r :
    Let(match_token(r.ps, "Comma"), LAMBDA comma :
        IF comma.matched
        THEN expression_list(comma.ps, Append(list, r.val))
        ELSE ParseOk(Append(list, r.val), comma.ps)))

array(ps) ==
    Try(consume(ps, "Identifier", "Expected array name after 'gyat'."),
        LAMBDA name :
    Try(consume(name.ps, "LeftBrace", "Expected '{' after array name."),
        LAMBDA brace :
    Try(IF ~check(brace.ps, "RightBrace")
        THEN expression_list(brace.ps, <<>>)
        ELSE ParseOk(<<>>, brace.ps),
        LAMBDA elements :
    Try(consume(elements.ps, "RightBrace", "Expected '}' after array elements."),
        LAMBDA close :
        ParseOk(Array(name.val.lexeme, elements.val), close.ps)))))

primary(ps) ==
    Let(match_token(ps, "String"), LAMBDA str :
    Let(IF str.matched THEN str ELSE match_token(str.ps, "Number"), LAMBDA lit :
    IF lit.matched
    THEN Let(previous(lit.ps), LAMBDA token :
         IF token.literal.some
         THEN ParseOk(Literal(token.literal.val), Read(lit.ps, token))
         ELSE ParseErr("Expected expression, got", Read(lit.ps, token)))
    ELSE
    Let(match_token(lit.ps, "Identifier"), LAMBDA id :
    IF id.matched
    THEN ParseOk(Variable(previous(id.ps).lexeme), Read(id.ps, previous(id.ps)))
    ELSE
    Let(match_token(id.ps, "LeftParen"), LAMBDA paren :
    IF paren.matched
    THEN Try(expression(paren.ps), LAMBDA expr :
         Try(consume(expr.ps, "RightParen", "Expected ')' after expression."),
             LAMBDA close :
             ParseOk(Grouping(expr.val), close.ps)))
    ELSE
    Let(match_token(paren.ps, "Gyat"), LAMBDA gyat :
    IF gyat.matched THEN array(gyat.ps)
    ELSE
    Let(match_token(gyat.ps, "Yeet"), LAMBDA yeet :
    IF yeet.matched THEN ParseOk(Yeet, yeet.ps)
    ELSE ParseErr("Expected expression, got", yeet.ps)))))))

finish_call(ps, callee) ==
    Try(IF ~check(ps, "RightParen")
        THEN expression_list(ps, <<>>)
        ELSE ParseOk(<<>>, ps),
        LAMBDA arguments :
    Try(consume(arguments.ps, "RightParen", "Expected ')' after arguments."),
        LAMBDA paren :
        ParseOk(Call(callee, arguments.val), paren.ps)))

\* the loop of call, with the expression built so far
call_loop(ps, expr) ==
    Let(match_token(ps, "LeftParen"), LAMBDA paren :
        IF paren.matched
        THEN Try(finish_call(paren.ps, expr), LAMBDA r : call_loop(r.ps, r.val))
        ELSE ParseOk(expr, paren.ps))

call(ps) == Try(primary(ps), LAMBDA expr : call_loop(expr.ps, expr.val))

unary(ps) ==
    Let(match_tokens(ps, {"Minus"}), LAMBDA minus :
        IF minus.matched
        THEN Let(previous(minus.ps), LAMBDA operator :
             Try(unary(Read(minus.ps, operator)), LAMBDA right :
                 ParseOk(Binary(Literal(Number(0)), operator.token_type,
                                right.val), right.ps)))
        ELSE call(minus.ps))

\* the while loop of factor, with the expression built so far
RECURSIVE factor_loop(_, _)
factor_loop(ps, expr) ==
    Let(match_tokens(ps, {"Star", "Slash", "Modulo"}), LAMBDA m :
        IF ~m.matched THEN ParseOk(expr, m.ps)
        ELSE Let(previous(m.ps), LAMBDA operator :
             Try(unary(Read(m.ps, operator)), LAMBDA right :
                 factor_loop(right.ps,
                             Binary(expr, operator.token_type, right.val)))))

factor(ps) == Try(unary(ps), LAMBDA expr : factor_loop(expr.ps, expr.val))

\* the while loop of term, with the expression built so far
RECURSIVE term_loop(_, _)
term_loop(ps, expr) ==
    Let(match_tokens(ps, {"Plus", "Minus"}), LAMBDA m :
        IF ~m.matched THEN ParseOk(expr, m.ps)
        ELSE Let(previous(m.ps), LAMBDA operator :
             Try(factor(Read(m.ps, operator)), LAMBDA right :
                 term_loop(right.ps,
                           Binary(expr, operator.token_type, right.val)))))

\* the mutant of term: the right operand is a whole term, so that + and -
\* associate to the right
term_right_assoc(ps) ==
    Try(factor(ps), LAMBDA expr :
    Let(match_tokens(expr.ps, {"Plus", "Minus"}), LAMBDA m :
        IF ~m.matched THEN ParseOk(expr.val, m.ps)
        ELSE Let(previous(m.ps), LAMBDA operator :
             Try(term_right_assoc(Read(m.ps, operator)), LAMBDA right :
                 ParseOk(Binary(expr.val, operator.token_type, right.val),
                         right.ps)))))

term(ps) == Try(factor(ps), LAMBDA expr : term_loop(expr.ps, expr.val))

\* the while loop of comparison, with the expression built so far
RECURSIVE comparison_loop(_, _)
comparison_loop(ps, expr) ==
    Let(match_tokens(ps, {"Greater", "GreaterEqual", "Less", "LessEqual"}),
        LAMBDA m :
        IF ~m.matched THEN ParseOk(expr, m.ps)
        ELSE Let(previous(m.ps), LAMBDA operator :
             Try(term(Read(m.ps, operator)), LAMBDA right :
                 comparison_loop(right.ps,
                                 Binary(expr, operator.token_type, right.val)))))

comparison(ps) ==
    Try(term(ps), LAMBDA expr : comparison_loop(expr.ps, expr.val))

\* the while loop of equality, with the expression built so far
RECURSIVE equality_loop(_, _)
equality_loop(ps, expr) ==
    Let(match_tokens(ps, {"Equal", "NotEqual"}), LAMBDA m :
        IF ~m.matched THEN ParseOk(expr, m.ps)
        ELSE Let(previous(m.ps), LAMBDA operator :
             Try(comparison(Read(m.ps, operator)), LAMBDA right :
                 equality_loop(right.ps,
                               Binary(expr, operator.token_type, right.val)))))

equality(ps) ==
    Try(comparison(ps), LAMBDA expr : equality_loop(expr.ps, expr.val))

\* self.previous() is read after the value has been parsed: the operator of
\* the node is the last token of the value
assignment(ps) ==
    Try(equality(ps), LAMBDA expr :
    Let(match_token(expr.ps, "Pmo"), LAMBDA pmo :
        IF ~pmo.matched THEN ParseOk(expr.val, pmo.ps)
        ELSE Try(assignment(pmo.ps), LAMBDA value :
             IF expr.val.e = "Variable"
             THEN Let(previous(value.ps), LAMBDA operator :
                      ParseOk(Binary(Variable(expr.val.name),
                                     operator.token_type, value.val),
                              Read(value.ps, operator)))
             ELSE [ok |-> FALSE, val |-> Nil, ps |-> value.ps,
                   err |-> Some([message |-> "Invalid assignment target."])])))

expression(ps) == assignment(ps)

expression_statement(ps) ==
    Try(expression(ps), LAMBDA expr :
    Try(consume(expr.ps, "Semicolon", "Expected ';' after expression."),
        LAMBDA semi :
        ParseOk(ExpressionStmt(expr.val), semi.ps)))

break_statement(ps) ==
    Try(consume(ps, "Semicolon", "Expected ';' after 'sybau'."), LAMBDA semi :
        ParseOk(BreakStmt, semi.ps))

\* while !self.check(Edge) && !self.is_at_end() { body.push(declaration()?) }
loop_body(ps, body) ==
    IF ~check(ps, "Edge") /\ ~Parser_is_at_end(ps)
    THEN Try(declaration(ps), LAMBDA r : loop_body(r.ps, Append(body, r.val)))
    ELSE ParseOk(body, Read(ps, Parser_peek(ps)))

loop_statement(ps) ==
    Let(match_token(ps, "LeftParen"), LAMBDA paren :
    Try(IF paren.matched
        THEN Try(expression(paren.ps), LAMBDA expr :
             Try(consume(expr.ps, "RightParen",
                         "Expected ')' after loop condition."),
                 LAMBDA close :
                 ParseOk(Some(expr.val), close.ps)))
        ELSE ParseOk(None, paren.ps),
        LAMBDA condition :
    Try(loop_body(condition.ps, <<>>), LAMBDA body :
    Try(consume(body.ps, "Edge", "Expected 'edge' after loop body."),
        LAMBDA edge :
        ParseOk(LoopStmt(condition.val, body.val), edge.ps)))))

if_statement(ps) ==
    Try(expression(ps), LAMBDA condition :
    Try(statement(condition.ps), LAMBDA then_branch :
    Let(match_token(then_branch.ps, "Gurt"), LAMBDA gurt :
        IF gurt.matched
        THEN Try(statement(gurt.ps), LAMBDA else_branch :
                 ParseOk(IfStmt(condition.val, then_branch.val,
                                Some(else_branch.val)), else_branch.ps))
        ELSE ParseOk(IfStmt(condition.val, then_branch.val, None), gurt.ps))))

print_statement(ps) ==
    Try(expression(ps), LAMBDA value :
    Try(consume(value.ps, "Semicolon", "Expected ';' after value."),
        LAMBDA semi :
        ParseOk(PrintStmt(value.val), semi.ps)))

statement(ps) ==
    Let(match_token(ps, "Yap"), LAMBDA yap :
    IF yap.matched THEN print_statement(yap.ps)
    ELSE
    Let(match_token(yap.ps, "Yo"), LAMBDA yo :
    IF yo.matched THEN if_statement(yo.ps)
    ELSE
    Let(match_token(yo.ps, "Goon"), LAMBDA goon :
    IF goon.matched THEN loop_statement(goon.ps)
    ELSE
    Let(match_token(goon.ps, "Sybau"), LAMBDA sybau :
    IF sybau.matched THEN break_statement(sybau.ps)
    ELSE expression_statement(sybau.ps)))))

\* loop { parameters.push(consume(Identifier)?); if !match_token(Comma) {break} }
RECURSIVE parameters_loop(_, _)
parameters_loop(ps, parameters) ==
    Try(consume(ps, "Identifier", "Expected parameter name."), LAMBDA name :
    Let(match_token(name.ps, "Comma"), LAMBDA comma :
        IF comma.matched
        THEN parameters_loop(comma.ps, Append(parameters, name.val.lexeme))
        ELSE ParseOk(Append(parameters, name.val.lexeme), comma.ps)))

function_declaration(ps) ==
    Try(consume(ps, "Identifier", "Expected function name."), LAMBDA name :
    Try(consume(name.ps, "LeftParen", "Expected '(' after function name."),
        LAMBDA open :
    Try(IF ~check(open.ps, "RightParen")
        THEN parameters_loop(open.ps, <<>>)
        ELSE ParseOk(<<>>, open.ps),
        LAMBDA parameters :
    Try(consume(parameters.ps, "RightParen", "Expected ')' after parameters."),
        LAMBDA close :
    Try(consume(close.ps, "Tuah", "Expected 'tuah' after function parameters."),
        LAMBDA tuah :
    Try(expression(tuah.ps), LAMBDA body :
    Try(consume(body.ps, "Semicolon", "Expected ';' after function body."),
        LAMBDA semi :
        ParseOk(FunctionStmt(name.val.lexeme, parameters.val, body.val),
                semi.ps))))))))

var_declaration(ps) ==
    Try(consume(ps, "Identifier", "Expected variable name."), LAMBDA name :
    Let(match_token(name.ps, "Pmo"), LAMBDA pmo :
    Try(IF pmo.matched
        THEN Try(expression(pmo.ps), LAMBDA expr :
                 ParseOk(Some(expr.val), expr.ps))
        ELSE ParseOk(None, pmo.ps),
        LAMBDA initializer :
    Try(consume(initializer.ps, "Semicolon",
                "Expected ';' after variable declaration."),
        LAMBDA semi :
        ParseOk(VarStmt(name.val.lexeme, initializer.val), semi.ps)))))

\* the call is added to declarations when it returns
declaration(ps) ==
    Let(Let(match_token(ps, "Ts"), LAMBDA ts :
            IF ts.matched THEN var_declaration(ts.ps)
            ELSE
            Let(match_token(ts.ps, "Hawk"), LAMBDA hawk :
            IF hawk.matched THEN function_declaration(hawk.ps)
            ELSE statement(hawk.ps))),
        LAMBDA r :
        [r EXCEPT !.ps.declarations =
            Append(@, [from |-> ps.current, to |-> r.ps.current, ok |-> r.ok])])

\* the while loop of parse, with the statements pushed so far
RECURSIVE parse_loop(_, _)
parse_loop(ps, stmts) ==
    IF ~Parser_is_at_end(ps)
    THEN Try(declaration(ps), LAMBDA r : parse_loop(r.ps, Append(stmts, r.val)))
    ELSE ParseOk(stmts, Read(ps, Parser_peek(ps)))

\* Result<Vec<Stmt>, String>, or the panic, and the Parser after the call
parse(ps) ==
    Let(parse_loop(ps, <<>>), LAMBDA r :
        [ok |-> r.ok /\ ~r.ps.panic, panic |-> r.ps.panic,
         statements |-> IF r.ok /\ ~r.ps.panic THEN r.val ELSE <<>>,
         err |-> IF r.ps.panic THEN None ELSE r.err,
         ps |-> r.ps])

(***************************************************************************)
(* Source texts for the parser                                              *)
(***************************************************************************)
\* ts x pmo 5; x pmo x + 1; yap x;
SrcReassign ==
    <<"t", "s", " ", "x", " ", "p", "m", "o", " ", "5", ";", " ", "x", " ",
      "p", "m", "o", " ", "x", " ", "+", " ", "1", ";", " ", "y", "a", "p",
      " ", "x", ";">>

\* a pmo b pmo 1;
SrcAssignChain ==
    <<"a", " ", "p", "m", "o", " ", "b", " ", "p", "m", "o", " ", "1", ";">>

\* yap 10 - 3 - 2;
SrcLeftAssoc ==
    <<"y", "a", "p", " ", "1", "0", " ", "-", " ", "3", " ", "-", " ", "2",
      ";">>

\* yap 1 + 2 * 3;
SrcPrecedence ==
    <<"y", "a", "p", " ", "1", " ", "+", " ", "2", " ", "*", " ", "3", ";">>

\* yap a == b < c + d * -e(1);
SrcLevels ==
    <<"y", "a", "p", " ", "a", " ", "=", "=", " ", "b", " ", "<", " ", "c",
      " ", "+", " ", "d", " ", "*", " ", "-", "e", "(", "1", ")", ";">>

\* yap -x; yap - -3; yap 0 - x;
SrcUnaryMinus ==
    <<"y", "a", "p", " ", "-", "x", ";", " ", "y", "a", "p", " ", "-", " ",
      "-", "3", ";", " ", "y", "a", "p", " ", "0", " ", "-", " ", "x", ";">>

\* hawk f(a, b) tuah a + b; goon(2) yo f(1, 2) > 2 sybau; gurt yap gyat g { 1, yeet }; edge
SrcStatements ==
    <<"h", "a", "w", "k", " ", "f", "(", "a", ",", " ", "b", ")", " ", "t",
      "u", "a", "h", " ", "a", " ", "+", " ", "b", ";", " ", "g", "o", "o",
      "n", "(", "2", ")", " ", "y", "o", " ", "f", "(", "1", ",", " ", "2",
      ")", " ", ">", " ", "2", " ", "s", "y", "b", "a", "u", ";", " ", "g",
      "u", "r", "t", " ", "y", "a", "p", " ", "g", "y", "a", "t", " ", "g",
      " ", "{", " ", "1", ",", " ", "y", "e", "e", "t", " ", "}", ";", " ",
      "e", "d", "g", "e">>

\* 1 pmo 2;
SrcTargetLiteral ==
    <<"1", " ", "p", "m", "o", " ", "2", ";">>

\* (x) pmo 2;
SrcTargetGrouping ==
    <<"(", "x", ")", " ", "p", "m", "o", " ", "2", ";">>

\* f() pmo 2;
SrcTargetCall ==
    <<"f", "(", ")", " ", "p", "m", "o", " ", "2", ";">>

\* x + 1 pmo 2;
SrcTargetArithmetic ==
    <<"x", " ", "+", " ", "1", " ", "p", "m", "o", " ", "2", ";">>

\* x < 1 pmo 2;
SrcTargetComparison ==
    <<"x", " ", "<", " ", "1", " ", "p", "m", "o", " ", "2", ";">>

\* gyat a { 1 } pmo 2;
SrcTargetArray ==
    <<"g", "y", "a", "t", " ", "a", " ", "{", " ", "1", " ", "}", " ", "p",
      "m", "o", " ", "2", ";">>

\* yap "__YEET__";
SrcMarkerString ==
    <<"y", "a", "p", " ", "\"", "_", "_", "Y", "E", "E", "T", "_", "_",
      "\"", ";">>

\* ts n pmo 0; goon(3) ts n pmo n + 1; yo n == 2 sybau; gurt yap n; edge yap "done";
SrcCountLoop ==
    <<"t", "s", " ", "n", " ", "p", "m", "o", " ", "0", ";", " ", "g", "o",
      "o", "n", "(", "3", ")", " ", "t", "s", " ", "n", " ", "p", "m", "o",
      " ", "n", " ", "+", " ", "1", ";", " ", "y", "o", " ", "n", " ", "=",
      "=", " ", "2", " ", "s", "y", "b", "a", "u", ";", " ", "g", "u", "r",
      "t", " ", "y", "a", "p", " ", "n", ";", " ", "e", "d", "g", "e", " ",
      "y", "a", "p", " ", "\"", "d", "o", "n", "e", "\"", ";">>

ParseSources ==
    {SrcLines, SrcKeywords, SrcOperators,
     SrcReassign, SrcAssignChain, SrcLeftAssoc,
     SrcPrecedence, SrcLevels, SrcUnaryMinus,
     SrcStatements, SrcTargetLiteral, SrcTargetGrouping,
     SrcTargetCall, SrcTargetArithmetic, SrcTargetComparison,
     SrcTargetArray, SrcMarkerString}

(***************************************************************************)
(* Parsing a token sequence.  A Parser is made by Parser::new from a        *)
(* sequence of tokens: every sequence of up to MaxTokens tokens of          *)
(* TokenAlphabet followed by the EOF token, the tokens of some source       *)
(* texts, and some sequences in which the EOF token is missing or is not    *)
(* the last.  Parse calls parse on it, ParseExpression calls expression.    *)
(***************************************************************************)
MaxTokens == 5

\* the token scan_token adds for a lexeme of one kind, on line 1
TokenOf(token_type) ==
    CASE token_type = "Identifier" -> Token("Identifier", "x", None, 1)
      [] token_type = "Pmo" -> Token("Pmo", "pmo", None, 1)
      [] token_type = "Minus" -> Token("Minus", "-", None, 1)
      [] token_type = "Star" -> Token("Star", "*", None, 1)
      [] token_type = "LeftParen" -> Token("LeftParen", "(", None, 1)
      [] token_type = "RightParen" -> Token("RightParen", ")", None, 1)
      [] token_type = "Semicolon" -> Token("Semicolon", ";", None, 1)
      [] token_type = "EOF" -> Token("EOF", "", None, 1)

TokenAlphabet ==
    {TokenOf(token_type) : token_type \in
        {"Identifier", "Pmo", "Minus", "Star", "LeftParen", "RightParen",
         "Semicolon"}}

\* the tokens the first scan_tokens on a new Lexer returns for a source text
Lexed(source) == scan_tokens(Lexer_new(source)).tokens

\* the tokens of the source texts the properties of the parser name
LexedAssignChain == Lexed(SrcAssignChain)
LexedLeftAssoc == Lexed(SrcLeftAssoc)
LexedPrecedence == Lexed(SrcPrecedence)
LexedLevels == Lexed(SrcLevels)
LexedUnaryMinus == Lexed(SrcUnaryMinus)
LexedStatements == Lexed(SrcStatements)

TokenSequences ==
    {body \o <<TokenOf("EOF")>> :
        body \in UNION {[1..n -> TokenAlphabet] : n \in 0..MaxTokens}}
        \cup {Lexed(source) : source \in ParseSources}
        \cup {<<>>, <<TokenOf("Identifier")>>,
              <<TokenOf("Identifier"), TokenOf("Semicolon")>>,
              <<TokenOf("EOF"), TokenOf("Identifier")>>,
              <<TokenOf("Identifier"), TokenOf("Semicolon"), TokenOf("EOF"),
                TokenOf("EOF")>>}

InitParse ==
    /\ statements = <<>>
    /\ stack = <<>>
    /\ environment = Environment_new
    /\ in_loop = FALSE
    /\ should_break = FALSE
    /\ output = <<>>
    /\ stdin = <<>>
    /\ status = "idle"
    /\ error = ""
    /\ trace = <<>>
    /\ lastCall \in {[op |-> "Parser::new", tokens |-> tokens,
                       parser |-> Parser_new(tokens), result |-> None] :
                        tokens \in TokenSequences}

Parse ==
    /\ lastCall.op = "Parser::new"
    /\ \E r \in {parse(lastCall.parser)} :
           lastCall' = [lastCall EXCEPT !.op = "parse", !.parser = r.ps,
                                        !.result = Some(r)]
    /\ UNCHANGED <<statements, stack, environment, in_loop, should_break, output,
                   stdin, status, error, trace>>

ParseExpression ==
    /\ lastCall.op = "Parser::new"
    /\ \E r \in {expression(lastCall.parser)} :
           lastCall' = [lastCall EXCEPT
                           !.op = "expression", !.parser = r.ps,
                           !.result = Some([r EXCEPT !.ok = @ /\ ~r.ps.panic]
                                               @@ [panic |-> r.ps.panic])]
    /\ UNCHANGED <<statements, stack, environment, in_loop, should_break, output,
                   stdin, status, error, trace>>

NextParse == Parse \/ ParseExpression

ParseSpec == InitParse /\ [][NextParse]_vars

(***************************************************************************)
(* Lexing and parsing a source text.  Two Lexer objects, a and b, are made  *)
(* from the same text by Lexer::new; scan_tokens is called on either, more  *)
(* than once too.  Two Parser objects are made by Parser::new from the      *)
(* tokens the first call on Lexer a returned, and parse is called on them.  *)
(***************************************************************************)
MaxSourceLen == 4
MaxScans == 2
LexAlphabet == {"\"", "\\", "n", "\n", "1", "="}
Objects == {"a", "b"}


SourceTexts ==
    UNION {[1..n -> LexAlphabet] : n \in 0..MaxSourceLen}
        \cup {SrcEscapes, SrcEscapedQuote} \cup ParseSources

InitLex ==
    /\ statements = <<>>
    /\ stack = <<>>
    /\ environment = Environment_new
    /\ in_loop = FALSE
    /\ should_break = FALSE
    /\ output = <<>>
    /\ stdin = <<>>
    /\ status = "idle"
    /\ error = ""
    /\ trace = <<>>
    /\ lastCall \in {[op |-> "Lexer::new", on |-> "a", source |-> source,
                       lexer |-> [l \in Objects |-> Lexer_new(source)],
                       calls |-> [l \in Objects |-> 0],
                       first |-> [l \in Objects |-> None],
                       result |-> None,
                       parser |-> [p \in Objects |-> None],
                       parsed |-> [p \in Objects |-> None]] :
                        source \in SourceTexts}

\* Result<Vec<Token>, String>
ScanResult(r) == [ok |-> r.ok, tokens |-> r.tokens, err |-> r.err]

ScanTokens(l) ==
    /\ lastCall.op \in {"Lexer::new", "scan_tokens"}
    /\ lastCall.calls[l] < MaxScans
    /\ \E r \in {scan_tokens(lastCall.lexer[l])} :
           lastCall' = [lastCall EXCEPT
                           !.op = "scan_tokens", !.on = l,
                           !.lexer[l] = r.lx,
                           !.calls[l] = @ + 1,
                           !.first[l] = IF @.some THEN @ ELSE Some(ScanResult(r)),
                           !.result = Some(ScanResult(r))]
    /\ UNCHANGED <<statements, stack, environment, in_loop, should_break, output,
                   stdin, status, error, trace>>



\* Result<Vec<Stmt>, String>
ParseResult(r) == [ok |-> r.ok, statements |-> r.statements, err |-> r.err]

\* Parser::new(tokens).parse() on the tokens Lexer a returned first
ParseTokens(p) ==
    /\ lastCall.op = "scan_tokens"
    /\ lastCall.first["a"].some /\ lastCall.first["a"].val.ok
    /\ ~lastCall.parsed[p].some
    /\ \E r \in {parse(Parser_new(lastCall.first["a"].val.tokens))} :
           lastCall' = [lastCall EXCEPT !.parser[p] = Some(r.ps),
                                        !.parsed[p] = Some(ParseResult(r))]
    /\ UNCHANGED <<statements, stack, environment, in_loop, should_break, output,
                   stdin, status, error, trace>>

NextLex == \E l \in Objects : ScanTokens(l) \/ ParseTokens(l)

LexSpec == InitLex /\ [][NextLex]_vars

CountEOF(tokens) ==
    Cardinality({i \in 1..Len(tokens) : tokens[i].token_type = "EOF"})

\* C21: every token sequence scan_tokens returns, on whichever call, holds
\* exactly one EOF token, and that token is its last element.
C21_ExactlyOneEOFLast ==
    lastCall.op = "scan_tokens" /\ lastCall.result.val.ok =>
        LET tokens == lastCall.result.val.tokens
        IN  /\ CountEOF(tokens) = 1
            /\ tokens[Len(tokens)].token_type = "EOF"

\* What a string literal's body denotes: plain characters stand for
\* themselves and a backslash with the character after it is one escape
\* sequence.  literal: the body is all characters and escape sequences, with
\* no bare '"'; known: every escape sequence is one of \n \t \r \\ \".
RECURSIVE Denoted(_)
Denoted(body) ==
    IF Len(body) = 0 THEN [literal |-> TRUE, known |-> TRUE, chars |-> <<>>]
    ELSE IF Head(body) = "\"" \/ (Head(body) = "\\" /\ Len(body) = 1)
    THEN [literal |-> FALSE, known |-> FALSE, chars |-> <<>>]
    ELSE IF Head(body) = "\\"
    THEN LET rest == Denoted(SubSeq(body, 3, Len(body)))
             c == body[2]
             known == c \in {"n", "t", "r", "\\", "\""}
             char == CASE c = "n" -> "\n"
                       [] c = "t" -> "\t"
                       [] c = "r" -> "\r"
                       [] OTHER -> c
         IN  [literal |-> rest.literal, known |-> known /\ rest.known,
              chars |-> <<char>> \o rest.chars]
    ELSE LET rest == Denoted(Tail(body))
         IN  [rest EXCEPT !.chars = <<Head(body)>> \o @]

\* the text between the first and the last character of the source
Body(source) == SubSeq(source, 2, Len(source) - 1)

IsStringLiteral(source) ==
    /\ Len(source) >= 2
    /\ source[1] = "\"" /\ source[Len(source)] = "\""
    /\ Denoted(Body(source)).literal

\* C22: a source text that is one string literal whose escape sequences are
\* all among \n \t \r \\ \" lexes to one String token whose payload holds the
\* denoted characters (a '"' for \"); with any other escape sequence in it,
\* lexing fails.
C22_EscapesResolved ==
    \A l \in Objects :
        lastCall.first[l].some /\ IsStringLiteral(lastCall.source) =>
            LET denoted == Denoted(Body(lastCall.source))
                r == lastCall.first[l].val
            IN  IF denoted.known
                THEN /\ r.ok
                     /\ Len(r.tokens) = 2
                     /\ r.tokens[1].token_type = "String"
                     /\ r.tokens[1].literal = Some(String(collect(denoted.chars)))
                ELSE ~r.ok

\* the same for the literals that hold no \" (not a claim: the escapes the
\* lexer does resolve)
EscapesResolvedButQuote ==
    \A l \in Objects :
        lastCall.first[l].some /\ IsStringLiteral(lastCall.source)
            /\ (\A i \in 1..Len(lastCall.source) - 1 :
                    ~(lastCall.source[i] = "\\" /\ lastCall.source[i + 1] = "\"")) =>
            LET denoted == Denoted(Body(lastCall.source))
                r == lastCall.first[l].val
            IN  IF denoted.known
                THEN /\ r.ok
                     /\ Len(r.tokens) = 2
                     /\ r.tokens[1].token_type = "String"
                     /\ r.tokens[1].literal = Some(String(collect(denoted.chars)))
                ELSE ~r.ok

\* the tokens of SrcLines: kinds, lexemes, literal payloads and line numbers
TokensOfSrcLines ==
    <<Token("Yap", "yap", None, 1),
      Token("Number", "1", Some(Whole(1)), 1),
      Token("Semicolon", ";", None, 1),
      Token("Yap", "yap", None, 3),
      Token("String", "\"a\nb\"", Some(String("a\nb")), 4),
      Token("Semicolon", ";", None, 4),
      Token("Identifier", "x", None, 4),
      Token("EOF", "", None, 4)>>

\* C23: the first scan_tokens on two Lexers made from the same source text
\* returns the same tokens (kinds, lexemes, literal payloads, line numbers)
\* or the same error, however the calls on the two are interleaved, and parse
\* on two Parsers made from the same tokens returns the same statements or
\* the same error; e.g. SrcLines always lexes to TokensOfSrcLines, which
\* always fail to parse at the EOF token for the missing ';'.
C23_Deterministic ==
    /\ \A l \in Objects, m \in Objects :
        /\ lastCall.first[l].some /\ lastCall.first[m].some =>
              lastCall.first[l].val = lastCall.first[m].val
        /\ lastCall.parsed[l].some /\ lastCall.parsed[m].some =>
              lastCall.parsed[l].val = lastCall.parsed[m].val
    /\ \A l \in Objects :
        lastCall.source = SrcLines =>
            /\ lastCall.first[l].some =>
                  lastCall.first[l].val =
                      [ok |-> TRUE, tokens |-> TokensOfSrcLines, err |-> ""]
            /\ lastCall.parsed[l].some =>
                  lastCall.parsed[l].val =
                      [ok |-> FALSE, statements |-> <<>>,
                       err |-> Some([message |-> "Expected ';' after expression. Got",
                                     got |-> Token("EOF", "", None, 4)])]

\* both Lexers have scanned a text of several lines, one of them twice, and
\* both Parsers have parsed its tokens
C23_Witness ==
    /\ lastCall.source = SrcLines
    /\ lastCall.calls["a"] = 2 /\ lastCall.calls["b"] = 1
    /\ lastCall.parsed["a"].some /\ lastCall.parsed["b"].some

(***************************************************************************)
(* Properties of the parser                                                 *)
(***************************************************************************)
Parsed(op) == lastCall.op = op /\ lastCall.result.some

\* the token sequence starts with a name and `pmo`
StartsWithAssignment ==
    /\ Len(lastCall.tokens) >= 2
    /\ lastCall.tokens[1].token_type = "Identifier"
    /\ lastCall.tokens[2].token_type = "Pmo"

\* the value of that assignment: the expression parsed after the `pmo`
AssignedValue == expression([Parser_new(lastCall.tokens) EXCEPT !.current = 2])

InvalidTargets ==
    {Lexed(source) : source \in
        {SrcTargetLiteral, SrcTargetGrouping, SrcTargetCall,
         SrcTargetArithmetic, SrcTargetComparison, SrcTargetArray}}

InvalidAssignmentTarget ==
    /\ ~lastCall.result.val.ok
    /\ lastCall.result.val.err = Some([message |-> "Invalid assignment target."])

\* the assignments the parser accepts and rejects, whatever the operator of
\* the node it builds (not a claim: the part of C24 the parser does satisfy)
AssignmentShape(operators) ==
    /\ Parsed("expression") /\ StartsWithAssignment /\ lastCall.result.val.ok =>
          /\ AssignedValue.ok
          /\ \E operator \in operators :
                lastCall.result.val.val =
                    Binary(Variable(lastCall.tokens[1].lexeme), operator,
                           AssignedValue.val)
    /\ Parsed("parse") /\ lastCall.tokens = LexedAssignChain =>
          /\ lastCall.result.val.ok
          /\ \E outer \in operators, inner \in operators :
                lastCall.result.val.statements =
                    <<ExpressionStmt(Binary(Variable("a"), outer,
                                            Binary(Variable("b"), inner, Num(1))))>>
    /\ Parsed("parse") /\ lastCall.tokens \in InvalidTargets =>
          InvalidAssignmentTarget /\ lastCall.result.val.statements = <<>>
    /\ Parsed("expression") /\ Len(lastCall.tokens) >= 4
            /\ lastCall.tokens[1].token_type = "LeftParen"
            /\ lastCall.tokens[2].token_type = "Identifier"
            /\ lastCall.tokens[3].token_type = "RightParen"
            /\ lastCall.tokens[4].token_type = "Pmo" =>
          ~lastCall.result.val.ok

TokenTypes ==
    {"LeftParen", "RightParen", "LeftBrace", "RightBrace", "Comma",
     "Semicolon", "Plus", "Minus", "Star", "Slash", "Modulo", "Equal",
     "NotEqual", "Greater", "GreaterEqual", "Less", "LessEqual", "Yap", "Ts",
     "Pmo", "Gyat", "Hawk", "Tuah", "Goon", "Edge", "Yeet", "Sybau", "Yo",
     "Gurt", "Identifier", "String", "Number", "Boolean", "EOF"}

AssignmentShapeAnyOperator == AssignmentShape(TokenTypes)

\* C24: `L pmo R` with L a bare variable parses to the Binary node of L, the
\* assignment token and R, `a pmo b pmo 1` to a pmo (b pmo 1); with any other
\* left form parsing fails with "Invalid assignment target." and yields no
\* statements.
C24_AssignmentNode == AssignmentShape({"Pmo"})

\* The precedence level of an expression tree, 1 the loosest: assignment,
\* equality, comparison, term, factor, unary minus, and 7 for a call or a
\* primary.  The node of an assignment is known by its operator being none of
\* the binary operators; the node of a unary minus by its left operand, the
\* literal 0 (the token sequences it is used on hold no Number token).
Level(expr) ==
    IF expr.e # "Binary" THEN 7
    ELSE IF expr.operator \notin BinaryOperators THEN 1
    ELSE IF expr.operator \in {"Equal", "NotEqual"} THEN 2
    ELSE IF expr.operator \in {"Greater", "GreaterEqual", "Less", "LessEqual"}
    THEN 3
    ELSE IF expr.operator = "Minus" /\ expr.left = Literal(Number(0)) THEN 6
    ELSE IF expr.operator \in {"Plus", "Minus"} THEN 4
    ELSE 5

RECURSIVE FollowsGrammar(_)
RECURSIVE AllFollowGrammar(_)
AllFollowGrammar(exprs) ==
    \A i \in 1..Len(exprs) : FollowsGrammar(exprs[i])

\* every node's operands are of the levels the grammar allows there: the left
\* operand of a left-associative operator of its level or tighter, the right
\* operand tighter; the target of an assignment a variable, its value any
\* expression; the operand of a unary minus a unary or tighter
FollowsGrammar(expr) ==
    CASE expr.e = "Binary" ->
            /\ FollowsGrammar(expr.right)
            /\ CASE Level(expr) = 1 -> expr.left.e = "Variable"
                 [] Level(expr) = 6 -> Level(expr.right) >= 6
                 [] OTHER -> /\ FollowsGrammar(expr.left)
                             /\ Level(expr.left) >= Level(expr)
                             /\ Level(expr.right) > Level(expr)
      [] expr.e = "Grouping" -> FollowsGrammar(expr.inner)
      [] expr.e = "Call" ->
            /\ Level(expr.callee) = 7 /\ FollowsGrammar(expr.callee)
            /\ AllFollowGrammar(expr.arguments)
      [] expr.e = "Array" -> AllFollowGrammar(expr.elements)
      [] OTHER -> TRUE

RECURSIVE Yield(_)
RECURSIVE YieldAll(_)
\* the yields of a list of expressions, with commas between them
YieldAll(exprs) ==
    IF Len(exprs) = 0 THEN <<>>
    ELSE IF Len(exprs) = 1 THEN Yield(exprs[1])
    ELSE Yield(exprs[1]) \o <<"Comma">> \o YieldAll(Tail(exprs))

\* the kinds of the tokens an expression tree is written with, in order
Yield(expr) ==
    CASE expr.e = "Binary" ->
            CASE Level(expr) = 1 -> Yield(expr.left) \o <<"Pmo">> \o Yield(expr.right)
              [] Level(expr) = 6 -> <<"Minus">> \o Yield(expr.right)
              [] OTHER -> Yield(expr.left) \o <<expr.operator>> \o Yield(expr.right)
      [] expr.e = "Grouping" -> <<"LeftParen">> \o Yield(expr.inner) \o <<"RightParen">>
      [] expr.e = "Call" ->
            Yield(expr.callee) \o <<"LeftParen">> \o YieldAll(expr.arguments)
                \o <<"RightParen">>
      [] expr.e = "Array" ->
            <<"Gyat", "Identifier", "LeftBrace">> \o YieldAll(expr.elements)
                \o <<"RightBrace">>
      [] expr.e = "Variable" -> <<"Identifier">>
      [] expr = Yeet -> <<"Yeet">>
      [] OTHER -> <<expr.lit.kind>>

TokenKinds(tokens) == [i \in 1..Len(tokens) |-> tokens[i].token_type]

NoNumberToken ==
    \A i \in 1..Len(lastCall.tokens) : lastCall.tokens[i].token_type # "Number"

X == Variable("x")

PrecedenceExamples ==
    /\ lastCall.tokens = LexedLeftAssoc =>
          lastCall.result.val.statements =
              <<PrintStmt(Binary(Binary(Num(10), "Minus", Num(3)), "Minus", Num(2)))>>
    /\ lastCall.tokens = LexedPrecedence =>
          lastCall.result.val.statements =
              <<PrintStmt(Binary(Num(1), "Plus", Binary(Num(2), "Star", Num(3))))>>
    /\ lastCall.tokens = LexedLevels =>
          lastCall.result.val.statements =
              <<PrintStmt(
                  Binary(Variable("a"), "Equal",
                      Binary(Variable("b"), "Less",
                          Binary(Variable("c"), "Plus",
                              Binary(Variable("d"), "Star",
                                  Binary(Literal(Number(0)), "Minus",
                                         Call(Variable("e"), <<Num(1)>>)))))))>>
    /\ lastCall.tokens = LexedUnaryMinus =>
          lastCall.result.val.statements =
              <<PrintStmt(Binary(Literal(Number(0)), "Minus", X)),
                PrintStmt(Binary(Literal(Number(0)), "Minus",
                                 Binary(Literal(Number(0)), "Minus", Num(3)))),
                PrintStmt(Binary(Literal(Number(0)), "Minus", X))>>

\* C25: every tree expression returns is written with exactly the tokens
\* consumed, in order, and each of its nodes has operands of the levels the
\* grammar allows (assignment loosest, then equality, comparison, term,
\* factor, unary minus, call; one level associates to the left; -e is 0 - e);
\* e.g. 10 - 3 - 2 is (10 - 3) - 2 and 1 + 2 * 3 is 1 + (2 * 3).
C25_Precedence ==
    /\ Parsed("expression") /\ NoNumberToken /\ lastCall.result.val.ok =>
          /\ FollowsGrammar(lastCall.result.val.val)
          /\ Yield(lastCall.result.val.val) =
                SubSeq(TokenKinds(lastCall.tokens), 1, lastCall.parser.current)
    /\ Parsed("parse") => PrecedenceExamples

\* x - x - x has been parsed as an expression, to (x - x) - x
C25_Witness ==
    /\ Parsed("expression")
    /\ lastCall.result.val.val = Binary(Binary(X, "Minus", X), "Minus", X)

\* the position of the first EOF token in the sequence, 0 when there is none
FirstEOF(tokens) ==
    LET at == {i \in 1..Len(tokens) : tokens[i].token_type = "EOF"}
    IN  IF at = {} THEN 0 ELSE CHOOSE i \in at : \A j \in at : i <= j

EndsWithEOF(tokens) ==
    Len(tokens) > 0 /\ tokens[Len(tokens)].token_type = "EOF"

\* the statements of SrcStatements
StatementsOfSrcStatements ==
    <<FunctionStmt("f", <<"a", "b">>,
                   Binary(Variable("a"), "Plus", Variable("b"))),
      LoopStmt(Some(Num(2)),
               <<IfStmt(Binary(Call(Variable("f"), <<Num(1), Num(2)>>),
                               "Greater", Num(2)),
                        BreakStmt,
                        Some(PrintStmt(Array("g", <<Num(1), Yeet>>))))>>)>>

\* C29: on a token sequence that ends with an EOF token parse returns, having
\* read no token at an index outside the sequence (none past the end, and
\* none before the first with current = 0); every call of declaration that
\* returned a statement consumed at least one token, so there are at most as
\* many calls as tokens; and the cursor is never past the first EOF token.
\* E.g. SrcStatements parses to StatementsOfSrcStatements.
C29_ParseTerminatesInBounds ==
    Parsed("parse") /\ EndsWithEOF(lastCall.tokens) =>
        LET r == lastCall.result.val
            calls == r.ps.declarations
        IN  /\ ~r.panic
            /\ \A k \in 1..Len(calls) :
                  /\ calls[k].ok => calls[k].to > calls[k].from
                  /\ calls[k].to < FirstEOF(lastCall.tokens)
            /\ Len(calls) <= Len(lastCall.tokens)
            /\ r.ps.current < FirstEOF(lastCall.tokens)
            /\ r.ok => r.ps.current = FirstEOF(lastCall.tokens) - 1
            /\ lastCall.tokens = LexedStatements =>
                  r.ok /\ r.statements = StatementsOfSrcStatements

\* a program with a function, a loop, an if with both branches and an array
\* literal has been parsed, by three calls of declaration
C29_Witness ==
    /\ Parsed("parse")
    /\ lastCall.tokens = LexedStatements
    /\ lastCall.result.val.ok
    /\ Len(lastCall.parser.declarations) = 3
    /\ lastCall.parser.current = Len(lastCall.tokens) - 1

\* (not a claim) a sequence without the EOF token at its end, on which parse
\* has read past the end
PanicWithoutEOF ==
    Parsed("parse") /\ ~EndsWithEOF(lastCall.tokens) /\ lastCall.result.val.panic

(***************************************************************************)
(* A source text run through the three stages: Lexer::new and scan_tokens,  *)
(* Parser::new and parse, Interpreter::new and interpret.  A lexical or a   *)
(* parse error ends the run before anything is executed.                    *)
(***************************************************************************)
\* Result<Vec<Stmt>, String> of the first two stages; the token in a parse
\* error's text is given by its kind
Compile(source) ==
    Let(scan_tokens(Lexer_new(source)), LAMBDA scanned :
    IF ~scanned.ok
    THEN [ok |-> FALSE, statements |-> <<>>, err |-> scanned.err]
    ELSE
    Let(parse(Parser_new(scanned.tokens)), LAMBDA parsed :
    IF ~parsed.ok
    THEN [ok |-> FALSE, statements |-> <<>>,
          err |-> IF ~parsed.err.some THEN "index out of bounds"
                  ELSE IF "got" \in DOMAIN parsed.err.val
                  THEN parsed.err.val.message \o " "
                           \o parsed.err.val.got.token_type
                  ELSE parsed.err.val.message]
    ELSE [ok |-> TRUE, statements |-> parsed.statements, err |-> ""]))

RunSources ==
    {SrcReassign, SrcAssignChain, SrcLeftAssoc, SrcPrecedence, SrcUnaryMinus,
     SrcStatements, SrcMarkerString, SrcLines, SrcEscapedQuote, SrcEscapes,
     SrcCountLoop}

InterpretSource(source, input) ==
    /\ status = "idle"
    /\ lastCall' = [op |-> "run", source |-> source]
    /\ stdin' = input
    /\ \E compiled \in {Compile(source)} :
           IF ~compiled.ok
           THEN /\ status' = "err"
                /\ error' = compiled.err
                /\ UNCHANGED <<statements, stack>>
           ELSE /\ statements' = compiled.statements
                /\ error' = error
                /\ IF Len(compiled.statements) = 0
                   THEN status' = "ok" /\ stack' = <<>>
                   ELSE status' = "running" /\ stack' = <<InterpretFrame(1)>>
    /\ UNCHANGED <<environment, in_loop, should_break, output, trace>>

NextRun ==
    \/ \E source \in RunSources, input \in Inputs : InterpretSource(source, input)
    \/ InterpretCheck
    \/ ExecExpression
    \/ ExecPrint
    \/ ExecVar
    \/ ExecFunction
    \/ ExecIf
    \/ IfReturn
    \/ ExecBreak
    \/ ExecLoop
    \/ LoopIter
    \/ LoopBodyCheck
    \/ LoopIterCheck

RunSpec == Init /\ [][NextRun]_vars

Ran(source) == lastCall.op = "run" /\ lastCall.source = source

Finished == status \in {"ok", "err"}

\* C11, on the program text: the run of `ts x pmo 5; x pmo x + 1; yap x;`
\* succeeds and prints 6, the assignment to the bound name x having replaced
\* its value.
C11_ReassignPrintsSix ==
    Ran(SrcReassign) /\ Finished => status = "ok" /\ output = <<"6">>

\* (not a claim) what the runs of the example programs end with
RunExamples ==
    /\ Ran(SrcReassign) /\ Finished =>
          /\ status = "err" /\ error = "Unsupported binary operation: Number"
          /\ output = <<>>
          /\ get(environment, "x") = Some(Whole(5))
    /\ Ran(SrcLeftAssoc) /\ Finished => status = "ok" /\ output = <<"5">>
    /\ Ran(SrcPrecedence) /\ Finished => status = "ok" /\ output = <<"7">>
    /\ Ran(SrcEscapes) /\ Finished => status = "err"
    /\ Ran(SrcEscapedQuote) =>
          status = "err" /\ error = "Unterminated string at line 1"
    /\ Ran(SrcLines) =>
          status = "err" /\ error = "Expected ';' after expression. Got EOF"
    /\ Ran(SrcMarkerString) /\ Finished /\ stdin = <<"hi">> =>
          output = <<"7">>

====
